---- MODULE Spec2Model ----
(***************************************************************************)
(* A model of terong, a software KVM switch.                               *)
(*                                                                         *)
(*   - the transport server (terong/transport/server): receptionist, run   *)
(*     loop, the single session and its goroutines;                        *)
(*   - the toggle detector and the server control loop (terong/server);    *)
(*   - the input source (inputsource): hook procedures and message pump;   *)
(*   - the normalizer (inputevent) and the frame codec (terong/transport). *)
(*                                                                         *)
(* Each subsystem has its own specification over the same variables; the   *)
(* variables of the other subsystems stay at their initial values.         *)
(***************************************************************************)
EXTENDS Integers, Sequences, FiniteSets, TLC

(***************************************************************************)
(* Bounds of the model.                                                    *)
(***************************************************************************)
MaxConns == 2
MaxPingSets == 1
MaxInputs == 2
MaxFrames == 1

(***************************************************************************)
(* Transport server state.                                                 *)
(***************************************************************************)
VARIABLES
    ctxDone,      \* ctx.Done() is closed
    accepted,     \* connections returned by listener.Accept so far: ids 1..accepted
    rcpPC,        \* receptionist goroutine: "accept", "offer" (blocked on r.conns <- conn), "closed"
    rcpConn,      \* the connection the receptionist is offering (0: none)
    connState,    \* connState[c]: "unborn", "open", "closed" (conn.Close was called)
    sessOf,       \* sessOf[c]: "none" (no session on c), "open", "closed" (Session.closed)
    rejected,     \* connections closed by the rejecting branch of run
    sess,         \* run's sess: the connection of the session it points to, 0 for emptySession()
    sessInputs,   \* sess.inputs, a channel of capacity 1
    sessDone,     \* sess.done, a channel of capacity 1
    sendPing,     \* sess.sendPingDeadline: [set |-> times set, fired |-> the timer has written to it]
    recvPing,     \* sess.recvPingDeadline, likewise
    sessLoop,     \* the goroutine of runSession: "none", "running", "exited"
    readerPC,     \* the reader goroutine of NewSession: "none", "reading", "offer", "exited"
    inboxFrame,   \* the frame the reader is offering on s.inbox (a tag; 0: none)
    runPC,        \* run: "loop", "returned", "panicked"
    nInputs,      \* events received by run on its inputs channel so far
    nFrames,      \* frames read from the current session's connection so far
    written       \* frames written to the current session's connection, oldest first

tsVars == <<ctxDone, accepted, rcpPC, rcpConn, connState, sessOf, rejected, sess,
            sessInputs, sessDone, sendPing, recvPing, sessLoop, readerPC,
            inboxFrame, runPC, nInputs, nFrames, written>>

(***************************************************************************)
(* Server control loop state (terong/server run) and its environment.      *)
(***************************************************************************)
VARIABLES
    now,          \* the clock, in ticks
    held,         \* the keys that are physically down
    normPrev,     \* the source's Normalizer.prev
    buffer,       \* keyBuffer.buf, oldest first
    relay,        \* run's relay flag
    toggledAt,    \* run's toggledAt
    ctlPC,        \* run: "select", "sending" (blocked on events <- input), "returned"
    pending,      \* the input run is handling while it is blocked on the send
    events,       \* the inputs handed to the transport on the events channel, oldest first
    captureReqs,  \* the flags passed to source.SetCaptureInputs, oldest first
    nEvents,      \* inputs received from source.Inputs() so far
    lastCall,     \* the latest call of toggleKeyStrokeExists (made on buffer as it is now):
                  \* after, the result, the entries counted, the input pushed, the clock
    hist,         \* every right-control Down or Up pushed so far, oldest first
    ctlDone       \* the done channel of the control loop's goroutine (capacity 1)

ctlVars == <<now, held, normPrev, buffer, relay, toggledAt, ctlPC, pending, events,
             captureReqs, nEvents, lastCall, hist, ctlDone>>

(***************************************************************************)
(* Input source state (inputsource): the pump thread, its message queue,   *)
(* the hook procedures' thread-local data, and the cursor.                 *)
(***************************************************************************)
VARIABLES
    srcPC,          \* run of the source: "loop", "returned"
    srcErr,         \* what run returned: "none" (still running), "nil", "oserror"
    msgQueue,       \* the posted messages of the pump thread, oldest first
    hook_event,     \* the thread-local scratch slot of the hook procedures
    eat_input,      \* the thread-local consume flag of the hook procedures
    captureInputs,  \* Handle.captureInputs
    oldCursorPos,   \* run's oldCursorPos: set is FALSE for nil
    cursor,         \* where the cursor is on the screen
    handleInputs,   \* Handle.inputs, oldest first
    stopCalled,     \* Handle.Stop has been called
    osEvents,       \* every input event the OS has delivered to a hook, in order, with
                    \* what became of it
    recorded,       \* where the cursor was at the latest change of captureInputs from
                    \* false to true
    lastSwitch,     \* what the latest SET_CAPTURE_INPUTS message did to captureInputs
    nTaken          \* the number of inputs the consumer has received from Handle.inputs

srcVars == <<srcPC, srcErr, msgQueue, hook_event, eat_input, captureInputs, oldCursorPos,
             cursor, handleInputs, stopCalled, osEvents, recorded, lastSwitch, nTaken>>

(***************************************************************************)
(* A normalizer fed with a sequence of events, and a byte stream carrying  *)
(* frames.                                                                 *)
(***************************************************************************)
VARIABLES
    nzIn,           \* the events passed to Normalize so far, oldest first
    nzOut,          \* what Normalize returned for them
    wire,           \* the bytes written to the stream and not yet read
    wrote,          \* the frames passed to writeFrame, oldest first
    readBack,       \* what readFrame returned, oldest first, with the bytes it consumed
    lastWrite,      \* the latest write: through which function, the length of the value,
                    \* the error returned, the bytes put on the stream
    peerSent        \* the chunks of bytes a peer has put on the stream itself, oldest first

nzVars == <<nzIn, nzOut>>

codecVars == <<wire, wrote, readBack, lastWrite, peerSent>>

(***************************************************************************)
(* One TLS connection between a dialer and a listener (terong/transport).  *)
(***************************************************************************)
VARIABLES
    tlsCfg,         \* the certificate each side presents and the one each side has pinned
    tlsClient,      \* the dialling side: "idle", "connected", "failed", "wrote"
    tlsDialErr,     \* the error of DialContext
    tlsServer,      \* the accepting side: "accepted", "read", "failed"
    tlsReadErr,     \* the error of the server's read
    tlsRead         \* the bytes the server has read

tlsVars == <<tlsCfg, tlsClient, tlsDialErr, tlsServer, tlsReadErr, tlsRead>>

(***************************************************************************)
(* The transport client (terong/transport/client): Start's goroutine and   *)
(* the goroutine of runSession.                                            *)
(***************************************************************************)
VARIABLES
    cSinceDial,     \* seconds since the last DialContext began, counted up to ReconnectDelay
    cCtxDone,       \* ctx of Start has been cancelled
    cPC,            \* Start's goroutine: "dial", "session", "wait", "returned", "panicked"
    cWaited,        \* seconds since time.After(ReconnectDelay) was created, counted likewise
    cSess,          \* sess: "nil", "open" or "closed"
    cSessPC,        \* runSession's goroutine: "none", "loop", "sending", "exited"
    cDone,          \* sess.done (capacity 1)
    cSendFired,     \* sess.sendPingDeadline holds a value
    cRecvFired,     \* sess.recvPingDeadline holds a value
    cInputsClosed,  \* h.inputs has been closed
    hErr,           \* h.err
    cLastErr,       \* the error Start's goroutine last received from sess.done
    cSinceEnded,    \* seconds since the last failed dial or end of a session, counted likewise
    cDials          \* every dial attempt: the values of cSinceDial and cSinceEnded at its start

clientVars == <<cSinceDial, cCtxDone, cPC, cWaited, cSess, cSessPC, cDone, cSendFired,
                cRecvFired, cInputsClosed, hErr, cLastErr, cSinceEnded, cDials>>

(***************************************************************************)
(* The way of an input event from the server's control loop to the         *)
(* client's consumer: run and runSession of the server transport, the      *)
(* connection, the reader goroutine of the client's Session and            *)
(* runSession of the client transport.                                     *)
(***************************************************************************)
VARIABLES
    pNext,          \* the number of events the control loop has forwarded: ids 1..pNext
    pOffer,         \* for every forwarded event, run's sess and whether it was active then
    pSess,          \* the number of the session run's sess points to, 0 for emptySession()
    pLoop,          \* the server's runSession goroutine of that session: "none", "running", "exited"
    pClosed,        \* run has called sess.Close() on that session
    pSlot,          \* sess.inputs of that session (capacity 1)
    pWire,          \* the frames written to that session's connection, oldest first
    pPings,         \* the number of ping frames among them
    pConn,          \* the number of the session the client is in, 0 when it has none
    pRead,          \* the number of frames the client's reader has read from the connection
    pInbox,         \* the frame the client's reader is offering on the inbox
    pHand,          \* the event the client's runSession is sending on inputs
    pDelivered      \* the events the consumer has received, each with its session

pipeVars == <<pNext, pOffer, pSess, pLoop, pClosed, pSlot, pWire, pPings, pConn, pRead,
              pInbox, pHand, pDelivered>>

(***************************************************************************)
(* Start of the client program (and of the server program): a generation   *)
(* is one call of run with its own context, the goroutine of run, the      *)
(* transport and the sink (the source on the server).                      *)
(***************************************************************************)
VARIABLES
    gens,           \* the generations started so far, oldest first: whether the
                    \* generation's context is cancelled, and its goroutines
    startPC         \* Start: "select" or "returned"

genVars == <<gens, startPC>>

(***************************************************************************)
(* The receive-ping deadline of one session, with time: runSession, the    *)
(* reader goroutine and the timer goroutine of SetRecvPingDeadline.        *)
(***************************************************************************)
VARIABLES
    dlSince,        \* seconds the timer goroutine of the current deadline channel has
                    \* slept, up to PingTimeout
    dlFired,        \* the current deadline channel holds its value
    dlInbox,        \* the tag of the frame the reader offers on the inbox, 0 for none
    dlLoop,         \* runSession: "running" or "exited"
    dlErr,          \* the error runSession returned
    dlGap,          \* seconds since a ping was last processed (since NewSession before
                    \* the first one), up to PingTimeout
    dlAge           \* seconds since NewSession, up to MaxAge

dlVars == <<dlSince, dlFired, dlInbox, dlLoop, dlErr, dlGap, dlAge>>

(***************************************************************************)
(* Session.Close called from several goroutines.                           *)
(***************************************************************************)
VARIABLES
    clPC,           \* where each caller is inside Close, "idle" between two calls
    clCalls,        \* the number of calls of Close each caller has made
    clMu,           \* the caller that holds s.mu, 0 for none
    clClosed,       \* s.closed
    clConnCloses,   \* the number of calls of s.conn.Close()
    clCancelled     \* s.cancelInbox() has been called: the reader's context is done

clVars == <<clPC, clCalls, clMu, clClosed, clConnCloses, clCancelled>>

(***************************************************************************)
(* What the receivers do with the frames of a peer: the runSession of the  *)
(* server and the runSession of the client, each given the same frames.    *)
(***************************************************************************)
VARIABLES
    rxWire,         \* the frames the peer has sent, oldest first: the tag, and whether
                    \* the value decodes as the event of that tag
    rxRead,         \* for each receiver, the number of frames its reader has read
    rxInbox,        \* for each receiver, the frame its reader offers on the inbox
    rxLoop,         \* for each receiver, its runSession: "running" or "exited"
    rxOut           \* for each receiver, the frames whose event the consumer received

rxVars == <<rxWire, rxRead, rxInbox, rxLoop, rxOut>>

(***************************************************************************)
(* run of the input source from its first statement to its return: the     *)
(* hooks and the deferred calls.                                           *)
(***************************************************************************)
VARIABLES
    mouseHook,      \* the low-level mouse hook: "none", "installed" or "removed"
    keyboardHook,   \* the low-level keyboard hook, likewise
    deferred,       \* the deferred calls of run, in the order of their defer statements
    runStep         \* run before and after its loop: "module", "mouse", "keyboard",
                    \* "center", "running" (srcPC tells the rest), "done" once run has
                    \* returned to its caller

hkVars == <<mouseHook, keyboardHook, deferred, runStep>>

(***************************************************************************)
(* The keyboard hook event in the message loop of the input source.        *)
(***************************************************************************)
VARIABLES
    kbSlot,     \* hook_event as keyboard_hook_proc left it: the message and the
                \* virtual-key code
    kbPrev,     \* Normalizer.prev
    kbPC,       \* "idle", "posted" (the hook event message is in the queue), "handled",
                \* "panicked"
    kbInput     \* what the pump sent on Handle.inputs for the message, NilEvent when
                \* nothing

kbVars == <<kbSlot, kbPrev, kbPC, kbInput>>

(***************************************************************************)
(* The writes of the two runSession loops on their sessions.               *)
(***************************************************************************)
VARIABLES
    wrLoop,     \* per side, the runSession loop: "running" or "exited"
    wrSlot,     \* sess.inputs of the server's session (capacity 1)
    wrWire,     \* per side, the frames the session has written in full, oldest first
    wrPartial,  \* per side, a failed write left a part of a frame on the connection
    wrFailedAt  \* per side, Len(wrWire) when a write failed, -1 while none has

wrVars == <<wrLoop, wrSlot, wrWire, wrPartial, wrFailedAt>>

\* the variables of the later sections
extVars == <<dlVars, clVars, rxVars, hkVars, kbVars, wrVars>>

vars == <<tsVars, ctlVars, srcVars, nzVars, codecVars, tlsVars, clientVars, pipeVars,
          genVars, extVars>>

ConnIds == 1..MaxConns

\* transport.Tag values (TagMouseMove = 1 .. TagPing = 5)
TagMouseMove == 1
TagKeyPress == 4
TagPing == 5

\* a ping frame in the record of written frames (input events are numbered from 1 in
\* the order run receives them)
PingFrame == 0

\* the tags a peer may send
PeerTags == {TagKeyPress, TagPing}

\* Session.Closed(): EmptySession() is created with closed: true
Closed(s) == s = 0 \/ sessOf[s] = "closed"

ArmedDeadline(n) == [set |-> n, fired |-> FALSE]

\* Session.SetSendPingDeadline / SetRecvPingDeadline: a fresh channel and timer
Rearm(d) == [set |-> d.set + 1, fired |-> FALSE]

\* the variables of the other subsystems
TSOthers == UNCHANGED <<ctlVars, srcVars, nzVars, codecVars, tlsVars, clientVars,
                pipeVars, genVars, extVars>>

TSInit ==
    /\ ctxDone = FALSE
    /\ accepted = 0
    /\ rcpPC = "accept"
    /\ rcpConn = 0
    /\ connState = [c \in ConnIds |-> "unborn"]
    /\ sessOf = [c \in ConnIds |-> "none"]
    /\ rejected = {}
    /\ sess = 0
    /\ sessInputs = <<>>
    /\ sessDone = <<>>
    /\ sendPing = ArmedDeadline(0)
    /\ recvPing = ArmedDeadline(0)
    /\ sessLoop = "none"
    /\ readerPC = "none"
    /\ inboxFrame = 0
    /\ runPC = "loop"
    /\ nInputs = 0
    /\ nFrames = 0
    /\ written = <<>>

\* context cancellation by the caller of Start
CtxCancel ==
    /\ ~ctxDone
    /\ ctxDone' = TRUE
    /\ UNCHANGED <<accepted, rcpPC, rcpConn, connState, sessOf, rejected, sess, sessInputs,
                   sessDone, sendPing, recvPing, sessLoop, readerPC, inboxFrame, runPC, written, nInputs, nFrames>>
    /\ TSOthers

\* newReceptionist: listener.Accept() returns a connection
Accept ==
    /\ rcpPC = "accept"
    /\ runPC = "loop"
    /\ accepted < MaxConns
    /\ accepted' = accepted + 1
    /\ rcpConn' = accepted + 1
    /\ rcpPC' = "offer"
    /\ connState' = [connState EXCEPT ![accepted + 1] = "open"]
    /\ UNCHANGED <<ctxDone, sessOf, rejected, sess, sessInputs, sessDone, sendPing, recvPing,
                   sessLoop, readerPC, inboxFrame, runPC, written, nInputs, nFrames>>
    /\ TSOthers

\* newReceptionist: listener.Accept() fails (always once run has closed the listener);
\* r.err is set and r.conns is closed
AcceptFail ==
    /\ rcpPC = "accept"
    /\ rcpPC' = "closed"
    /\ UNCHANGED <<ctxDone, accepted, rcpConn, connState, sessOf, rejected, sess, sessInputs,
                   sessDone, sendPing, recvPing, sessLoop, readerPC, inboxFrame, runPC, written, nInputs, nFrames>>
    /\ TSOthers

\* run, case conn := <-receptionist.conns, with the session check dropped
RunConnNoReject ==
    /\ runPC = "loop"
    /\ rcpPC = "offer"
    /\ rcpPC' = "accept"
    /\ rcpConn' = 0
    /\ sess' = rcpConn
    /\ sessOf' = [sessOf EXCEPT ![rcpConn] = "open"]
    /\ sessInputs' = <<>>
    /\ sessDone' = <<>>
    /\ sendPing' = ArmedDeadline(1)
    /\ recvPing' = ArmedDeadline(1)
    /\ sessLoop' = "running"
    /\ readerPC' = "reading"
    /\ inboxFrame' = 0
    /\ written' = <<>>
    /\ nFrames' = 0
    /\ UNCHANGED <<ctxDone, accepted, connState, rejected, runPC, nInputs>>
    /\ TSOthers

\* run, case conn := <-receptionist.conns: reject while the session is not closed,
\* otherwise newSession(ctx, conn) and runSession(ctx, sess)
RunConn ==
    /\ runPC = "loop"
    /\ rcpPC = "offer"
    /\ rcpPC' = "accept"
    /\ rcpConn' = 0
    /\ IF ~Closed(sess)
       THEN /\ connState' = [connState EXCEPT ![rcpConn] = "closed"]
            /\ rejected' = rejected \cup {rcpConn}
            /\ UNCHANGED <<sess, sessOf, sessInputs, sessDone, sendPing, recvPing,
                           sessLoop, readerPC, inboxFrame, nFrames, written>>
       ELSE /\ sess' = rcpConn
            /\ sessOf' = [sessOf EXCEPT ![rcpConn] = "open"]
            /\ sessInputs' = <<>>
            /\ sessDone' = <<>>
            /\ sendPing' = ArmedDeadline(1)
            /\ recvPing' = ArmedDeadline(1)
            /\ sessLoop' = "running"
            /\ readerPC' = "reading"
            /\ inboxFrame' = 0
            /\ written' = <<>>
            /\ nFrames' = 0
            /\ UNCHANGED <<connState, rejected>>
    /\ UNCHANGED <<ctxDone, accepted, runPC, nInputs>>
    /\ TSOthers

\* run, case conn, ok := <-receptionist.conns with ok = false: return receptionist.err;
\* the deferred sess.Close() calls the nil cancelInbox of EmptySession()
RunConnsClosed ==
    /\ runPC = "loop"
    /\ rcpPC = "closed"
    /\ IF sess = 0
       THEN /\ runPC' = "panicked"
            /\ UNCHANGED <<sessOf, connState>>
       ELSE /\ runPC' = "returned"
            /\ sessOf' = [sessOf EXCEPT ![sess] = "closed"]
            /\ connState' = [connState EXCEPT ![sess] = "closed"]
    /\ UNCHANGED <<ctxDone, accepted, rcpPC, rcpConn, rejected, sess, sessInputs, sessDone,
                   sendPing, recvPing, sessLoop, readerPC, inboxFrame, written, nInputs, nFrames>>
    /\ TSOthers

\* run, case input := <-inputs with a sess.inputs that takes every event
RunInputQueued ==
    /\ runPC = "loop"
    /\ nInputs < MaxInputs
    /\ nInputs' = nInputs + 1
    /\ IF sess # 0
       THEN sessInputs' = Append(sessInputs, nInputs + 1)
       ELSE UNCHANGED sessInputs
    /\ UNCHANGED <<ctxDone, accepted, rcpPC, rcpConn, connState, sessOf, rejected, sess,
                   sessDone, sendPing, recvPing, sessLoop, readerPC, inboxFrame, runPC, written, nFrames>>
    /\ TSOthers

\* run, case input := <-inputs: a non-blocking send on sess.inputs
\* (a nil channel for emptySession(), capacity 1 otherwise)
RunInput ==
    /\ runPC = "loop"
    /\ nInputs < MaxInputs
    /\ nInputs' = nInputs + 1
    /\ IF sess # 0 /\ Len(sessInputs) < 1
       THEN sessInputs' = Append(sessInputs, nInputs + 1)
       ELSE UNCHANGED sessInputs
    /\ UNCHANGED <<ctxDone, accepted, rcpPC, rcpConn, connState, sessOf, rejected, sess,
                   sessDone, sendPing, recvPing, sessLoop, readerPC, inboxFrame, runPC, written, nFrames>>
    /\ TSOthers

\* run, case err := <-sess.done, without the call of sess.Close()
RunDoneNoClose ==
    /\ runPC = "loop"
    /\ sess # 0
    /\ sessDone # <<>>
    /\ sessDone' = Tail(sessDone)
    /\ UNCHANGED <<sessOf, connState>>
    /\ UNCHANGED <<ctxDone, accepted, rcpPC, rcpConn, rejected, sess, sessInputs,
                   sendPing, recvPing, sessLoop, readerPC, inboxFrame, runPC, written, nInputs, nFrames>>
    /\ TSOthers

\* run, case err := <-sess.done: sess.Close()
RunDone ==
    /\ runPC = "loop"
    /\ sess # 0
    /\ sessDone # <<>>
    /\ sessDone' = Tail(sessDone)
    /\ sessOf' = [sessOf EXCEPT ![sess] = "closed"]
    /\ connState' = [connState EXCEPT ![sess] = "closed"]
    /\ UNCHANGED <<ctxDone, accepted, rcpPC, rcpConn, rejected, sess, sessInputs,
                   sendPing, recvPing, sessLoop, readerPC, inboxFrame, runPC, written, nInputs, nFrames>>
    /\ TSOthers

\* run, case <-ctx.Done(): return ctx.Err(), then the deferred sess.Close() and
\* listener.Close()
RunCtxDone ==
    /\ runPC = "loop"
    /\ ctxDone
    /\ IF sess = 0
       THEN /\ runPC' = "panicked"
            /\ UNCHANGED <<sessOf, connState>>
       ELSE /\ runPC' = "returned"
            /\ sessOf' = [sessOf EXCEPT ![sess] = "closed"]
            /\ connState' = [connState EXCEPT ![sess] = "closed"]
    /\ UNCHANGED <<ctxDone, accepted, rcpPC, rcpConn, rejected, sess, sessInputs, sessDone,
                   sendPing, recvPing, sessLoop, readerPC, inboxFrame, written, nInputs, nFrames>>
    /\ TSOthers

\* the timer goroutine of SetSendPingDeadline writes to the deadline channel
SendTimerFire ==
    /\ sessLoop = "running"
    /\ ~sendPing.fired
    /\ sendPing.set <= MaxPingSets
    /\ sendPing' = [sendPing EXCEPT !.fired = TRUE]
    /\ UNCHANGED <<ctxDone, accepted, rcpPC, rcpConn, connState, sessOf, rejected, sess, sessInputs,
                   sessDone, recvPing, sessLoop, readerPC, inboxFrame, runPC, written, nInputs, nFrames>>
    /\ TSOthers

\* the timer goroutine of SetRecvPingDeadline writes to the deadline channel
RecvTimerFire ==
    /\ sessLoop = "running"
    /\ ~recvPing.fired
    /\ recvPing' = [recvPing EXCEPT !.fired = TRUE]
    /\ UNCHANGED <<ctxDone, accepted, rcpPC, rcpConn, connState, sessOf, rejected, sess, sessInputs,
                   sessDone, sendPing, sessLoop, readerPC, inboxFrame, runPC, written, nInputs, nFrames>>
    /\ TSOthers

\* the goroutine of runSession returns err: sess.done <- err
SessionReturns(err) ==
    /\ sessLoop' = "exited"
    /\ sessDone' = Append(sessDone, err)

\* runSession, case <-ctx.Done()
SessCtxDone ==
    /\ sessLoop = "running"
    /\ ctxDone
    /\ SessionReturns("ctx")
    /\ UNCHANGED <<ctxDone, accepted, rcpPC, rcpConn, connState, sessOf, rejected, sess, sessInputs,
                   sendPing, recvPing, readerPC, inboxFrame, runPC, written, nInputs, nFrames>>
    /\ TSOthers

\* runSession, case input := <-sess.inputs: sess.writeInput(input); the write and
\* flush succeed (only on an open connection) or fail
SessInput ==
    /\ sessLoop = "running"
    /\ sessInputs # <<>>
    /\ sessInputs' = Tail(sessInputs)
    /\ \E ok \in BOOLEAN :
         /\ ok => connState[sess] = "open"
         /\ IF ok
            THEN /\ written' = Append(written, Head(sessInputs))
                 /\ UNCHANGED <<sessLoop, sessDone>>
            ELSE /\ SessionReturns("write")
                 /\ UNCHANGED written
    /\ UNCHANGED <<ctxDone, accepted, rcpPC, rcpConn, connState, sessOf, rejected, sess,
                   sendPing, recvPing, readerPC, inboxFrame, runPC, nInputs, nFrames>>
    /\ TSOthers

\* runSession, case <-sess.SendPingDeadline(): sess.SendPing() writes a ping frame and,
\* when the write succeeded, sets the send deadline again
SessSendPing ==
    /\ sessLoop = "running"
    /\ sendPing.fired
    /\ \E ok \in BOOLEAN :
         /\ ok => connState[sess] = "open"
         /\ IF ok
            THEN /\ written' = Append(written, PingFrame)
                 /\ sendPing' = Rearm(sendPing)
                 /\ UNCHANGED <<sessLoop, sessDone>>
            ELSE /\ SessionReturns("write")
                 /\ sendPing' = [sendPing EXCEPT !.fired = FALSE]
                 /\ UNCHANGED written
    /\ UNCHANGED <<ctxDone, accepted, rcpPC, rcpConn, connState, sessOf, rejected, sess,
                   sessInputs, recvPing, readerPC, inboxFrame, runPC, nInputs, nFrames>>
    /\ TSOthers

\* runSession, case <-sess.RecvPingDeadline(): return transport.ErrPingTimedOut
SessRecvTimeout ==
    /\ sessLoop = "running"
    /\ recvPing.fired
    /\ recvPing' = [recvPing EXCEPT !.fired = FALSE]
    /\ SessionReturns("pingTimedOut")
    /\ UNCHANGED <<ctxDone, accepted, rcpPC, rcpConn, connState, sessOf, rejected, sess,
                   sessInputs, sendPing, readerPC, inboxFrame, runPC, written, nInputs, nFrames>>
    /\ TSOthers

\* runSession, case frm, ok := <-sess.Inbox() with ok = true: a ping sets the receive
\* deadline again, any other tag is logged
SessInboxFrame ==
    /\ sessLoop = "running"
    /\ readerPC = "offer"
    /\ readerPC' = "reading"
    /\ inboxFrame' = 0
    /\ IF inboxFrame = TagPing
       THEN recvPing' = Rearm(recvPing)
       ELSE UNCHANGED recvPing
    /\ UNCHANGED <<ctxDone, accepted, rcpPC, rcpConn, connState, sessOf, rejected, sess,
                   sessInputs, sessDone, sendPing, sessLoop, runPC, written, nInputs, nFrames>>
    /\ TSOthers

\* runSession, case frm, ok := <-sess.Inbox() with ok = false: return sess.InboxErr()
SessInboxClosed ==
    /\ sessLoop = "running"
    /\ readerPC = "exited"
    /\ SessionReturns("inbox")
    /\ UNCHANGED <<ctxDone, accepted, rcpPC, rcpConn, connState, sessOf, rejected, sess,
                   sessInputs, sendPing, recvPing, readerPC, inboxFrame, runPC, written, nInputs, nFrames>>
    /\ TSOthers

\* the reader goroutine of NewSession: s.ReadFrame() returns a frame of the peer
ReaderRead(tag) ==
    /\ readerPC = "reading"
    /\ connState[sess] = "open"
    /\ readerPC' = "offer"
    /\ inboxFrame' = tag
    /\ nFrames < MaxFrames
    /\ nFrames' = nFrames + 1
    /\ UNCHANGED <<ctxDone, accepted, rcpPC, rcpConn, connState, sessOf, rejected, sess,
                   sessInputs, sessDone, sendPing, recvPing, sessLoop, runPC, written, nInputs>>
    /\ TSOthers

\* the reader goroutine: s.ReadFrame() fails (the peer or Close closed the connection,
\* a handshake or framing error), or inboxCtx is done while the frame is offered;
\* inboxErr is set and the inbox is closed
ReaderExit ==
    /\ \/ readerPC = "reading"
       \/ readerPC = "offer" /\ (ctxDone \/ Closed(sess))
    /\ readerPC' = "exited"
    /\ inboxFrame' = 0
    /\ UNCHANGED <<ctxDone, accepted, rcpPC, rcpConn, connState, sessOf, rejected, sess,
                   sessInputs, sessDone, sendPing, recvPing, sessLoop, runPC, written, nInputs, nFrames>>
    /\ TSOthers

TSNext ==
    \/ CtxCancel
    \/ Accept
    \/ AcceptFail
    \/ RunConn
    \/ RunConnsClosed
    \/ RunInput
    \/ RunDone
    \/ RunCtxDone
    \/ SendTimerFire
    \/ RecvTimerFire
    \/ SessCtxDone
    \/ SessInput
    \/ SessSendPing
    \/ SessRecvTimeout
    \/ SessInboxFrame
    \/ SessInboxClosed
    \/ \E tag \in PeerTags : ReaderRead(tag)
    \/ ReaderExit

(***************************************************************************)
(* Input events and the normalizer (inputevent).                           *)
(***************************************************************************)

\* the keys of the model: the toggle key and one other key
RightCtrl == "RightCtrl"
KeyA == "A"
Keys == {RightCtrl, KeyA}

KeyActionDown == "Down"
KeyActionRepeat == "Repeat"
KeyActionUp == "Up"

KeyPress(k, a) == [type |-> "KeyPress", key |-> k, action |-> a]
MouseClick(a) == [type |-> "MouseClick", key |-> "none", action |-> a]
MouseMove(dx, dy) == [type |-> "MouseMove", key |-> "none", action |-> "none",
                     dx |-> dx, dy |-> dy]
\* the nil interface value
NilEvent == [type |-> "nil", key |-> "none", action |-> "none"]

\* Normalizer.Normalize with a key change passing for a repeat
NormalizeAnyKey(prev, event) ==
    IF /\ prev.type = "KeyPress" /\ prev.action = KeyActionDown
       /\ event.type = "KeyPress" /\ event.action = KeyActionDown
    THEN [prev |-> prev, out |-> KeyPress(event.key, KeyActionRepeat)]
    ELSE [prev |-> event, out |-> event]

\* Normalizer.Normalize: prev is n.prev before the call; the result is n.prev after
\* the call and the event returned
Normalize(prev, event) ==
    IF ~(prev.type = "KeyPress") \/ prev.action # KeyActionDown
    THEN [prev |-> event, out |-> event]
    ELSE IF ~(event.type = "KeyPress") \/ event.action # KeyActionDown
    THEN [prev |-> event, out |-> event]
    ELSE IF event.key # prev.key
    THEN [prev |-> event, out |-> event]
    ELSE [prev |-> prev, out |-> KeyPress(event.key, KeyActionRepeat)]

(***************************************************************************)
(* The toggle detector (terong/server keyBuffer).  Time is counted in      *)
(* ticks, TicksPerMilli ticks to the millisecond, so that the truncation   *)
(* of Time.UnixMilli is part of the model.                                 *)
(***************************************************************************)
TicksPerMilli == 2
WindowMillis == 300
Window == WindowMillis * TicksPerMilli

\* time.Time{}, before every reading of the clock
ZeroTime == 0

\* Time.UnixMilli
UnixMilli(t) == t \div TicksPerMilli

\* Time.Before
Before(t1, t2) == t1 < t2

\* the comparison function handed to slices.BinarySearchFunc by push
PushCmp(e, t2) == UnixMilli(e.t) - UnixMilli(t2)

\* slices.BinarySearchFunc: the loop over [i, j)
RECURSIVE BinarySearch(_, _, _, _)
BinarySearch(buf, target, i, j) ==
    IF i < j
    THEN LET h == (i + j) \div 2
         IN  IF PushCmp(buf[h + 1], target) < 0
             THEN BinarySearch(buf, target, h + 1, j)
             ELSE BinarySearch(buf, target, i, h)
    ELSE i

\* keyBuffer.push at clock reading t
Push(buf, k, t) ==
    IF k.action # KeyActionDown /\ k.action # KeyActionUp
    THEN buf
    ELSE LET i == BinarySearch(buf, t - Window, 0, Len(buf))
         IN  Append(SubSeq(buf, i + 1, Len(buf)), [k |-> k, t |-> t])

NoToggle == [yes |-> FALSE, at |-> ZeroTime, counted |-> {}]

\* the loop of keyBuffer.toggleKeyStrokeExists from index i down; counted are the
\* indices of the entries that advanced c
RECURSIVE ToggleWalk(_, _, _, _, _, _)
ToggleWalk(buf, after, i, c, t, counted) ==
    IF i = 0
    THEN NoToggle
    ELSE LET event == buf[i]
         IN  IF event.k.key # RightCtrl
             THEN ToggleWalk(buf, after, i - 1, c, t, counted)
             ELSE IF Before(event.t, after)
             THEN NoToggle
             ELSE LET up == c % 2 # 0 /\ event.k.action = KeyActionUp
                      down == c % 2 = 0 /\ event.k.action = KeyActionDown
                      t2 == IF c = 1 /\ event.k.action = KeyActionUp THEN event.t ELSE t
                      c2 == IF up \/ down THEN c + 1 ELSE c
                      counted2 == IF up \/ down THEN counted \cup {i} ELSE counted
                  IN  IF c2 \div 2 = 2
                      THEN [yes |-> TRUE, at |-> t2, counted |-> counted2]
                      ELSE ToggleWalk(buf, after, i - 1, c2, t2, counted2)

\* toggleKeyStrokeExists reporting the oldest counted entry's time
ToggleOldest(buf, after) ==
    LET r == ToggleWalk(buf, after, Len(buf), 1, ZeroTime, {})
    IN  IF r.yes
        THEN [r EXCEPT !.at = buf[CHOOSE i \in r.counted : \A j \in r.counted : i <= j].t]
        ELSE r

\* keyBuffer.toggleKeyStrokeExists(after)
toggleKeyStrokeExists(buf, after) == ToggleWalk(buf, after, Len(buf), 1, ZeroTime, {})

(***************************************************************************)
(* The server control loop (terong/server run).                            *)
(***************************************************************************)
MaxEvents == 6

\* the clock readings between two inputs
Deltas == {40 * TicksPerMilli, 220 * TicksPerMilli + 1}

\* what the hook can report next: right control going down (a press, or the
\* auto-repeat while it is held), the other key going down, a held key going up,
\* a mouse click
RawInputs ==
    {KeyPress(RightCtrl, KeyActionDown)}
        \cup {KeyPress(k, KeyActionDown) : k \in Keys \ held}
        \cup {KeyPress(k, KeyActionUp) : k \in held}
        \cup {MouseClick(KeyActionDown)}

HeldAfter(raw) ==
    IF raw.type # "KeyPress" THEN held
    ELSE IF raw.action = KeyActionDown THEN held \cup {raw.key}
    ELSE held \ {raw.key}

NoCall == [after |-> ZeroTime, yes |-> FALSE, at |-> ZeroTime,
           counted |-> {}, input |-> NilEvent, now |-> ZeroTime]

\* the variables of the other subsystems that the control loop leaves alone
CtlFrame ==
    UNCHANGED <<ctxDone, accepted, rcpPC, rcpConn, connState, sessOf, rejected, sess,
                sessInputs, sessDone, sendPing, recvPing, sessLoop, readerPC, inboxFrame,
                nInputs, nFrames, written, srcVars, nzVars, codecVars, tlsVars, clientVars,
                pipeVars, genVars, extVars>>

\* the loop starts with nothing toggled, or is met long after one toggle (at tick 1),
\* when every entry of the buffer of that time has been pruned
CtlInit ==
    /\ now = Window
    /\ held = {}
    /\ normPrev = NilEvent
    /\ buffer = <<>>
    /\ \/ /\ relay = FALSE
          /\ toggledAt = ZeroTime
          /\ captureReqs = <<FALSE>>
       \/ /\ relay = TRUE
          /\ toggledAt = 1
          /\ captureReqs = <<FALSE, TRUE>>
    /\ ctlPC = "select"
    /\ pending = NilEvent
    /\ events = <<>>
    /\ nEvents = 0
    /\ lastCall = NoCall
    /\ hist = <<>>
    /\ ctlDone = <<>>

\* run, lines 411-419: a KeyPress is pushed at clock reading t, then the detector is
\* asked; on a match relay flips, toggledAt is set and the source is told
HandleKey(input, t) ==
    IF input.type = "KeyPress"
    THEN LET buf2 == Push(buffer, input, t)
             r == toggleKeyStrokeExists(buf2, toggledAt)
         IN  /\ buffer' = buf2
             /\ lastCall' = [after |-> toggledAt, yes |-> r.yes, at |-> r.at,
                             counted |-> r.counted, input |-> input, now |-> t]
             /\ hist' = IF input.key = RightCtrl /\ input.action # KeyActionRepeat
                        THEN Append(hist, [k |-> input, t |-> t])
                        ELSE hist
             /\ IF r.yes
                THEN /\ relay' = ~relay
                     /\ toggledAt' = r.at
                     /\ captureReqs' = Append(captureReqs, ~relay)
                ELSE UNCHANGED <<relay, toggledAt, captureReqs>>
    ELSE UNCHANGED <<buffer, lastCall, hist, relay, toggledAt, captureReqs>>

\* run, case input := <-source.Inputs(), sending every input on events
SourceInputAlwaysForward(raw, d) ==
    /\ ctlPC = "select"
    /\ nEvents < MaxEvents
    /\ nEvents' = nEvents + 1
    /\ now' = now + d
    /\ held' = HeldAfter(raw)
    /\ LET n == Normalize(normPrev, raw)
       IN  /\ normPrev' = n.prev
           /\ IF relay \/ ~relay
              THEN /\ ctlPC' = "sending"
                   /\ pending' = n.out
                   /\ UNCHANGED <<buffer, lastCall, hist, relay, toggledAt, captureReqs>>
              ELSE /\ HandleKey(n.out, now')
                   /\ UNCHANGED <<ctlPC, pending>>
    /\ UNCHANGED <<events, runPC, ctlDone>>
    /\ CtlFrame

\* run, case input := <-source.Inputs(): the source has normalized the raw event;
\* with relay on, run blocks on events <- input
SourceInput(raw, d) ==
    /\ ctlPC = "select"
    /\ nEvents < MaxEvents
    /\ nEvents' = nEvents + 1
    /\ now' = now + d
    /\ held' = HeldAfter(raw)
    /\ LET n == Normalize(normPrev, raw)
       IN  /\ normPrev' = n.prev
           /\ IF relay
              THEN /\ ctlPC' = "sending"
                   /\ pending' = n.out
                   /\ UNCHANGED <<buffer, lastCall, hist, relay, toggledAt, captureReqs>>
              ELSE /\ HandleKey(n.out, now')
                   /\ UNCHANGED <<ctlPC, pending>>
    /\ UNCHANGED <<events, runPC, ctlDone>>
    /\ CtlFrame

\* the transport's run takes the input from the events channel; the control loop goes
\* on with the key handling
ForwardTaken ==
    /\ ctlPC = "sending"
    /\ runPC = "loop"
    /\ events' = Append(events, pending)
    /\ HandleKey(pending, now)
    /\ ctlPC' = "select"
    /\ pending' = NilEvent
    /\ UNCHANGED <<now, held, normPrev, nEvents, runPC, ctlDone>>
    /\ CtlFrame

CtlNext ==
    \/ \E raw \in RawInputs, d \in Deltas : SourceInput(raw, d)
    \/ ForwardTaken

(***************************************************************************)
(* The input source (inputsource, Windows).  The hook procedures run on    *)
(* the pump thread while it is inside GetMessage, between two messages     *)
(* handled by run; SetCaptureInputs and Stop are called from the control   *)
(* loop's goroutine and only post a message.                               *)
(***************************************************************************)
MaxOsEvents == 2
MaxRequests == 3

\* capacity of Handle.inputs
InputsCap == 10000
MaxTaken == 1

\* Windows virtual-key codes
VK_A == 65
VK_RCONTROL == 163

\* the table keyCodeToVirtualKey; an entry that init leaves alone is the zero KeyCode
keyCodeToVirtualKey(vk) ==
    CASE vk = VK_A -> KeyA
      [] vk = VK_RCONTROL -> RightCtrl
      [] OTHER -> "none"

Point(x, y) == [x |-> x, y |-> y]

\* the work area of the screen, and screenCenter()
ScreenSize == Point(2, 2)
screenCenter == Point(ScreenSize.x \div 2, ScreenSize.y \div 2)

\* where the cursor is when the source starts, and where the mouse can take it
StartPoint == Point(0, 2)
MovePoints == {Point(0, 2), Point(2, 1)}

\* C.POINT{}
ZeroPoint == Point(0, 0)
NilCursorPos == [set |-> FALSE, pt |-> ZeroPoint]

\* the data of the scratch slot before any hook has run
NoData == 0
NoHookEvent == [code |-> "none", data |-> NoData, id |-> 0]

\* the low-level mouse and keyboard events of the model
MouseEvents ==
    {[code |-> "WM_MOUSEMOVE", data |-> p] : p \in MovePoints}
        \cup {[code |-> "WM_LBUTTONDOWN", data |-> NoData]}
KeyboardEvents ==
    {[code |-> c, data |-> VK_RCONTROL] : c \in {"WM_KEYDOWN", "WM_KEYUP"}}

HookMessage(hook, id) == [message |-> "HOOK_EVENT", wParam |-> hook, id |-> id]
SetCaptureMessage(flag) ==
    [message |-> "SET_CAPTURE_INPUTS", wParam |-> IF flag THEN "TRUE" ELSE "FALSE", id |-> 0]
StopMessage == [message |-> "CONTROL_COMMAND", wParam |-> "STOP", id |-> 0]

\* the variables of the other subsystems that the source leaves alone
SrcFrame ==
    UNCHANGED <<tsVars, now, held, buffer, toggledAt, ctlPC, pending, events, nEvents,
                lastCall, hist, ctlDone, nzVars, codecVars, tlsVars, clientVars,
                pipeVars, genVars, extVars>>

\* run has installed the hooks and computed the screen centre; the control loop has
\* made its first call, SetCaptureInputs(false)
SrcInit ==
    /\ srcPC = "loop"
    /\ srcErr = "none"
    /\ msgQueue = <<SetCaptureMessage(FALSE)>>
    /\ hook_event = NoHookEvent
    /\ eat_input = FALSE
    /\ captureInputs = FALSE
    /\ oldCursorPos = NilCursorPos
    /\ cursor = StartPoint
    /\ handleInputs = <<>>
    /\ stopCalled = FALSE
    /\ osEvents = <<>>
    /\ recorded = StartPoint
    /\ lastSwitch = "none"
    /\ nTaken = 0

\* mouse_hook_proc / keyboard_hook_proc: the payload goes to the scratch slot, a
\* message is posted, and the event is withheld from the OS iff eat_input is set; a
\* mouse move that is passed on moves the cursor
HookProc(hook, ev) ==
    /\ srcPC = "loop"
    /\ Len(osEvents) < MaxOsEvents
    /\ LET id == Len(osEvents) + 1
       IN  /\ hook_event' = [code |-> ev.code,
                             data |-> IF ev.code \in {"WM_MOUSEMOVE", "WM_KEYDOWN", "WM_KEYUP"}
                                      THEN ev.data ELSE hook_event.data,
                             id |-> id]
           /\ msgQueue' = Append(msgQueue, HookMessage(hook, id))
           /\ osEvents' = Append(osEvents, [hook |-> hook, code |-> ev.code,
                                            withheld |-> eat_input, fate |-> "queued",
                                            payload |-> 0, out |-> NilEvent])
    /\ cursor' = IF ev.code = "WM_MOUSEMOVE" /\ ~eat_input THEN ev.data ELSE cursor
    /\ UNCHANGED <<srcPC, srcErr, eat_input, captureInputs, oldCursorPos, handleInputs,
                   stopCalled, recorded, lastSwitch, normPrev, relay, captureReqs>>
    /\ UNCHANGED nTaken
    /\ SrcFrame

mouse_hook_proc(ev) ==
    /\ ev \in MouseEvents
    /\ HookProc("WH_MOUSE_LL", ev)

keyboard_hook_proc(ev) ==
    /\ ev \in KeyboardEvents
    /\ HookProc("WH_KEYBOARD_LL", ev)

\* Handle.SetCaptureInputs with the message put in front of the waiting ones
SetCaptureInputsInFront ==
    /\ Len(captureReqs) < MaxRequests
    /\ relay' = ~relay
    /\ captureReqs' = Append(captureReqs, ~relay)
    /\ msgQueue' = <<SetCaptureMessage(~relay)>> \o msgQueue
    /\ UNCHANGED <<srcPC, srcErr, hook_event, eat_input, captureInputs, oldCursorPos,
                   cursor, handleInputs, stopCalled, osEvents, recorded, lastSwitch,
                   normPrev>>
    /\ UNCHANGED nTaken
    /\ SrcFrame

\* Handle.SetCaptureInputs, called by the control loop when it flips relay
SetCaptureInputs ==
    /\ Len(captureReqs) < MaxRequests
    /\ relay' = ~relay
    /\ captureReqs' = Append(captureReqs, ~relay)
    /\ msgQueue' = Append(msgQueue, SetCaptureMessage(~relay))
    /\ UNCHANGED <<srcPC, srcErr, hook_event, eat_input, captureInputs, oldCursorPos,
                   cursor, handleInputs, stopCalled, osEvents, recorded, lastSwitch,
                   normPrev>>
    /\ UNCHANGED nTaken
    /\ SrcFrame

\* Handle.Stop
Stop ==
    /\ srcPC = "loop"
    /\ ~stopCalled
    /\ stopCalled' = TRUE
    /\ msgQueue' = Append(msgQueue, StopMessage)
    /\ UNCHANGED <<srcPC, srcErr, hook_event, eat_input, captureInputs, oldCursorPos,
                   cursor, handleInputs, osEvents, recorded, lastSwitch, normPrev, relay,
                   captureReqs>>
    /\ UNCHANGED nTaken
    /\ SrcFrame

\* run, case MESSAGE_CODE_HOOK_EVENT: the input the pump makes of the scratch slot for
\* a message posted by the given hook; "skip" is the continue of a mouse move outside
\* capture mode, NilEvent a nil input
Translate(wParam, slot) ==
    IF wParam = "WH_MOUSE_LL"
    THEN CASE slot.code = "WM_MOUSEMOVE" ->
                  IF ~captureInputs
                  THEN [type |-> "skip"]
                  ELSE MouseMove(slot.data.x - screenCenter.x,
                                 -(slot.data.y - screenCenter.y))
           [] slot.code = "WM_LBUTTONDOWN" -> MouseClick(KeyActionDown)
           [] OTHER -> NilEvent
    ELSE CASE slot.code = "WM_KEYDOWN" ->
                  KeyPress(keyCodeToVirtualKey(slot.data), KeyActionDown)
           [] slot.code = "WM_KEYUP" ->
                  KeyPress(keyCodeToVirtualKey(slot.data), KeyActionUp)
           [] OTHER -> NilEvent

\* run, case MESSAGE_CODE_HOOK_EVENT with a plain send on Handle.inputs, which waits
\* for room
PumpHookEventBlocking ==
    /\ srcPC = "loop"
    /\ msgQueue # <<>>
    /\ Head(msgQueue).message = "HOOK_EVENT"
    /\ LET msg == Head(msgQueue)
           input == Translate(msg.wParam, hook_event)
           n == Normalize(normPrev, input)
           fate == IF input.type = "skip" THEN "skipped"
                   ELSE IF input.type = "nil" THEN "nil"
                   ELSE IF Len(handleInputs) < InputsCap THEN "reported"
                   ELSE "dropped"
       IN  /\ fate # "dropped"
           /\ msgQueue' = Tail(msgQueue)
           /\ osEvents' = [osEvents EXCEPT ![msg.id].fate = fate,
                                           ![msg.id].payload = hook_event.id,
                                           ![msg.id].out = IF fate \in {"reported", "dropped"}
                                                           THEN n.out ELSE NilEvent]
           /\ normPrev' = IF fate \in {"reported", "dropped"} THEN n.prev ELSE normPrev
           /\ handleInputs' = IF fate = "reported"
                              THEN Append(handleInputs, n.out)
                              ELSE handleInputs
    /\ UNCHANGED <<srcPC, srcErr, hook_event, eat_input, captureInputs, oldCursorPos,
                   cursor, stopCalled, recorded, lastSwitch, relay, captureReqs>>
    /\ UNCHANGED nTaken
    /\ SrcFrame

\* run, case MESSAGE_CODE_HOOK_EVENT: translate what the scratch slot holds now,
\* normalize it and send it on Handle.inputs without blocking
PumpHookEvent ==
    /\ srcPC = "loop"
    /\ msgQueue # <<>>
    /\ Head(msgQueue).message = "HOOK_EVENT"
    /\ LET msg == Head(msgQueue)
           input == Translate(msg.wParam, hook_event)
           n == Normalize(normPrev, input)
           fate == IF input.type = "skip" THEN "skipped"
                   ELSE IF input.type = "nil" THEN "nil"
                   ELSE IF Len(handleInputs) < InputsCap THEN "reported"
                   ELSE "dropped"
       IN  /\ msgQueue' = Tail(msgQueue)
           /\ osEvents' = [osEvents EXCEPT ![msg.id].fate = fate,
                                           ![msg.id].payload = hook_event.id,
                                           ![msg.id].out = IF fate \in {"reported", "dropped"}
                                                           THEN n.out ELSE NilEvent]
           /\ normPrev' = IF fate \in {"reported", "dropped"} THEN n.prev ELSE normPrev
           /\ handleInputs' = IF fate = "reported"
                              THEN Append(handleInputs, n.out)
                              ELSE handleInputs
    /\ UNCHANGED <<srcPC, srcErr, hook_event, eat_input, captureInputs, oldCursorPos,
                   cursor, stopCalled, recorded, lastSwitch, relay, captureReqs>>
    /\ UNCHANGED nTaken
    /\ SrcFrame

\* run, case CONTROL_COMMAND_STOP
PumpStop ==
    /\ srcPC = "loop"
    /\ msgQueue # <<>>
    /\ Head(msgQueue) = StopMessage
    /\ msgQueue' = Tail(msgQueue)
    /\ srcPC' = "returned"
    /\ srcErr' = "nil"
    /\ UNCHANGED <<hook_event, eat_input, captureInputs, oldCursorPos, cursor,
                   handleInputs, stopCalled, osEvents, recorded, lastSwitch, normPrev,
                   relay, captureReqs>>
    /\ UNCHANGED nTaken
    /\ SrcFrame

\* how a SET_CAPTURE_INPUTS message changes captureInputs
SwitchOf(flag) ==
    IF flag = captureInputs THEN "same" ELSE IF flag THEN "entered" ELSE "left"

\* run, case MESSAGE_CODE_SET_CAPTURE_INPUTS, leaving the cursor where it is when
\* capture mode ends
PumpSetCaptureNoRestore ==
    /\ srcPC = "loop"
    /\ msgQueue # <<>>
    /\ Head(msgQueue).message = "SET_CAPTURE_INPUTS"
    /\ LET flag == Head(msgQueue).wParam = "TRUE"
       IN  /\ msgQueue' = Tail(msgQueue)
           /\ captureInputs' = flag
           /\ eat_input' = flag
           /\ lastSwitch' = SwitchOf(flag)
           /\ recorded' = IF flag /\ ~captureInputs THEN cursor ELSE recorded
           /\ IF flag
              THEN \E okGet, okSet \in BOOLEAN :
                     /\ oldCursorPos' = [set |-> TRUE, pt |-> IF okGet THEN cursor ELSE ZeroPoint]
                     /\ cursor' = IF okGet /\ okSet THEN screenCenter ELSE cursor
                     /\ srcPC' = IF okGet /\ okSet THEN "loop" ELSE "returned"
                     /\ srcErr' = IF okGet /\ okSet THEN "none" ELSE "oserror"
              ELSE /\ oldCursorPos' = NilCursorPos
                   /\ UNCHANGED <<cursor, srcPC, srcErr>>
    /\ UNCHANGED <<hook_event, handleInputs, stopCalled, osEvents, normPrev, relay,
                   captureReqs>>
    /\ UNCHANGED nTaken
    /\ SrcFrame

\* run, case MESSAGE_CODE_SET_CAPTURE_INPUTS, keeping the saved position after the
\* cursor is restored
PumpSetCaptureKeepSaved ==
    /\ srcPC = "loop"
    /\ msgQueue # <<>>
    /\ Head(msgQueue).message = "SET_CAPTURE_INPUTS"
    /\ LET flag == Head(msgQueue).wParam = "TRUE"
       IN  /\ msgQueue' = Tail(msgQueue)
           /\ captureInputs' = flag
           /\ eat_input' = flag
           /\ lastSwitch' = SwitchOf(flag)
           /\ recorded' = IF flag /\ ~captureInputs THEN cursor ELSE recorded
           /\ IF flag
              THEN \E okGet, okSet \in BOOLEAN :
                     /\ oldCursorPos' = [set |-> TRUE, pt |-> IF okGet THEN cursor ELSE ZeroPoint]
                     /\ cursor' = IF okGet /\ okSet THEN screenCenter ELSE cursor
                     /\ srcPC' = IF okGet /\ okSet THEN "loop" ELSE "returned"
                     /\ srcErr' = IF okGet /\ okSet THEN "none" ELSE "oserror"
              ELSE IF oldCursorPos.set
              THEN \E ok \in BOOLEAN :
                     /\ cursor' = IF ok THEN oldCursorPos.pt ELSE cursor
                     /\ oldCursorPos' = oldCursorPos
                     /\ srcPC' = IF ok THEN "loop" ELSE "returned"
                     /\ srcErr' = IF ok THEN "none" ELSE "oserror"
              ELSE UNCHANGED <<oldCursorPos, cursor, srcPC, srcErr>>
    /\ UNCHANGED <<hook_event, handleInputs, stopCalled, osEvents, normPrev, relay,
                   captureReqs>>
    /\ UNCHANGED nTaken
    /\ SrcFrame

\* run, case MESSAGE_CODE_SET_CAPTURE_INPUTS: the flags are set first; entering capture
\* mode saves the cursor position and centres the cursor, leaving it restores the saved
\* position; GetCursorPos and SetCursorPos may fail, and then run returns the error
PumpSetCaptureInputs ==
    /\ srcPC = "loop"
    /\ msgQueue # <<>>
    /\ Head(msgQueue).message = "SET_CAPTURE_INPUTS"
    /\ LET flag == Head(msgQueue).wParam = "TRUE"
       IN  /\ msgQueue' = Tail(msgQueue)
           /\ captureInputs' = flag
           /\ eat_input' = flag
           /\ lastSwitch' = SwitchOf(flag)
           /\ recorded' = IF flag /\ ~captureInputs THEN cursor ELSE recorded
           /\ IF flag
              THEN \E okGet, okSet \in BOOLEAN :
                     /\ oldCursorPos' = [set |-> TRUE, pt |-> IF okGet THEN cursor ELSE ZeroPoint]
                     /\ cursor' = IF okGet /\ okSet THEN screenCenter ELSE cursor
                     /\ srcPC' = IF okGet /\ okSet THEN "loop" ELSE "returned"
                     /\ srcErr' = IF okGet /\ okSet THEN "none" ELSE "oserror"
              ELSE IF oldCursorPos.set
              THEN \E ok \in BOOLEAN :
                     /\ cursor' = IF ok THEN oldCursorPos.pt ELSE cursor
                     /\ oldCursorPos' = IF ok THEN NilCursorPos ELSE oldCursorPos
                     /\ srcPC' = IF ok THEN "loop" ELSE "returned"
                     /\ srcErr' = IF ok THEN "none" ELSE "oserror"
              ELSE UNCHANGED <<oldCursorPos, cursor, srcPC, srcErr>>
    /\ UNCHANGED <<hook_event, handleInputs, stopCalled, osEvents, normPrev, relay,
                   captureReqs>>
    /\ UNCHANGED nTaken
    /\ SrcFrame

\* the consumer receives from Handle.Inputs()
TakeInput ==
    /\ handleInputs # <<>>
    /\ nTaken < MaxTaken
    /\ handleInputs' = Tail(handleInputs)
    /\ nTaken' = nTaken + 1
    /\ UNCHANGED <<srcPC, srcErr, msgQueue, hook_event, eat_input, captureInputs,
                   oldCursorPos, cursor, stopCalled, osEvents, recorded, lastSwitch,
                   normPrev, relay, captureReqs>>
    /\ SrcFrame

SrcNext ==
    \/ \E ev \in MouseEvents : mouse_hook_proc(ev)
    \/ \E ev \in KeyboardEvents : keyboard_hook_proc(ev)
    \/ SetCaptureInputs
    \/ Stop
    \/ PumpHookEvent
    \/ PumpStop
    \/ PumpSetCaptureInputs
    \/ TakeInput

\* the source while the control loop runs: no Stop
CaptureNext ==
    \/ \E ev \in KeyboardEvents : keyboard_hook_proc(ev)
    \/ SetCaptureInputs
    \/ PumpHookEvent
    \/ PumpSetCaptureInputs
    \/ TakeInput

(***************************************************************************)
(* The input source with a consumer that has fallen behind: RightCtrl has  *)
(* been held down and all but one place of Handle.inputs is taken by the   *)
(* Down and the Repeats that run made of it.                               *)
(***************************************************************************)
Backlog ==
    [i \in 1..(InputsCap - 1) |->
        KeyPress(RightCtrl, IF i = 1 THEN KeyActionDown ELSE KeyActionRepeat)]

SrcBacklogInit ==
    /\ srcPC = "loop"
    /\ srcErr = "none"
    /\ msgQueue = <<>>
    /\ hook_event = [code |-> "WM_KEYDOWN", data |-> VK_RCONTROL, id |-> 0]
    /\ eat_input = FALSE
    /\ captureInputs = FALSE
    /\ oldCursorPos = NilCursorPos
    /\ cursor = StartPoint
    /\ handleInputs = Backlog
    /\ stopCalled = FALSE
    /\ osEvents = <<>>
    /\ recorded = StartPoint
    /\ lastSwitch = "same"
    /\ nTaken = 0

\* the control loop as CtlInit leaves it with relay off, but for the Normalizer of the
\* source, whose prev is the Down of the key that is held
CtlBacklogInit ==
    /\ now = Window
    /\ held = {}
    /\ normPrev = KeyPress(RightCtrl, KeyActionDown)
    /\ buffer = <<>>
    /\ relay = FALSE
    /\ toggledAt = ZeroTime
    /\ captureReqs = <<FALSE>>
    /\ ctlPC = "select"
    /\ pending = NilEvent
    /\ events = <<>>
    /\ nEvents = 0
    /\ lastCall = NoCall
    /\ hist = <<>>
    /\ ctlDone = <<>>

BacklogNext ==
    \/ \E ev \in MouseEvents : mouse_hook_proc(ev)
    \/ \E ev \in KeyboardEvents : keyboard_hook_proc(ev)
    \/ PumpHookEvent
    \/ TakeInput

(***************************************************************************)
(* A Normalizer fed with an arbitrary sequence of events.                  *)
(***************************************************************************)
MaxNormLen == 4

\* the events passed to Normalize
NormInputs ==
    {KeyPress(k, a) : k \in Keys, a \in {KeyActionDown, KeyActionRepeat, KeyActionUp}}
        \cup {MouseClick(KeyActionDown), MouseMove(1, 0)}

\* the variables of the other subsystems that Normalize leaves alone
NzFrame ==
    UNCHANGED <<tsVars, now, held, buffer, relay, toggledAt, ctlPC, pending, events,
                captureReqs, nEvents, lastCall, hist, ctlDone, srcVars, codecVars, tlsVars,
                clientVars, pipeVars, genVars, extVars>>

\* Normalizer{}
NzInit ==
    /\ nzIn = <<>>
    /\ nzOut = <<>>

\* one call of Normalizer.Normalize
NormalizeCall(event) ==
    /\ Len(nzIn) < MaxNormLen
    /\ LET n == Normalize(normPrev, event)
       IN  /\ normPrev' = n.prev
           /\ nzOut' = Append(nzOut, n.out)
    /\ nzIn' = Append(nzIn, event)
    /\ NzFrame

NzNext == \E event \in NormInputs : NormalizeCall(event)

(***************************************************************************)
(* The frame codec (terong/transport): writeFrame and readFrame over one   *)
(* byte stream.                                                            *)
(***************************************************************************)
MaxWireFrames == 2

ValueMaxLength == 1020

\* Go's byte(v) and uint16(v)
Byte(v) == v % 256
Uint16(v) == v % 65536

\* the frames handed to writeFrame: tags within and beyond the known ones, values
\* shorter and longer than one length byte can count, of the greatest length allowed
\* and one byte more, and one frame whose Value is longer than its Length
FrameTags == {TagMouseMove, 258, 65535}
FrameLengths == {0, 1, 256, ValueMaxLength, ValueMaxLength + 1}
ValueBytes(tag, n) == [i \in 1..n |-> Byte(tag + 7 * i)]
Frame(tag, length, value) == [Tag |-> tag, Length |-> length, Value |-> value]
Frames ==
    {Frame(tag, n, ValueBytes(tag, n)) : tag \in FrameTags, n \in FrameLengths}
        \cup {Frame(TagKeyPress, 1, ValueBytes(TagKeyPress, 2))}

\* writeUint16 with the two bytes swapped
writeUint16LowFirst(v) == <<Byte(v), Byte(v \div 256)>>

\* writeUint16: the high byte first
writeUint16(v) == <<Byte(v \div 256), Byte(v)>>

\* readUint16 of the two bytes at the head of the stream
readUint16(bytes) == Uint16(bytes[1] * 256) + bytes[2]

\* writeFrame: the bytes it writes
writeFrame(frm) ==
    writeUint16(frm.Tag) \o writeUint16(frm.Length) \o SubSeq(frm.Value, 1, frm.Length)

\* io.ReadFull in readFrame returns when the header and then as many value bytes as
\* the header announces have arrived; until then readFrame is blocked
ReadFrameReady(bytes) ==
    /\ Len(bytes) >= 4
    /\ Len(bytes) >= 4 + readUint16(SubSeq(bytes, 3, 4))

\* readFrame on a stream that holds the bytes it asks for: the frame, the error and the
\* number of bytes taken from the stream
readFrame(bytes) ==
    LET tag == readUint16(SubSeq(bytes, 1, 2))
        length == readUint16(SubSeq(bytes, 3, 4))
        value == SubSeq(bytes, 5, 4 + length)
    IN  [frame |-> Frame(tag, length, value),
         err |-> IF length > ValueMaxLength THEN "ErrMaxLengthExceeded" ELSE "nil",
         consumed |-> 4 + length]

\* the variables of the other subsystems that the codec leaves alone
CodecFrame == UNCHANGED <<tsVars, ctlVars, srcVars, nzVars, tlsVars, clientVars,
                pipeVars, genVars, extVars>>

NoWrite == [via |-> "none", len |-> 0, err |-> "nil", put |-> 0]

CodecInit ==
    /\ wire = <<>>
    /\ wrote = <<>>
    /\ readBack = <<>>
    /\ lastWrite = NoWrite
    /\ peerSent = <<>>

\* writeFrame / Session.WriteFrame on a stream that takes the bytes: neither looks at
\* the length, and nil is returned
WriteFrame(frm) ==
    /\ Len(wrote) < MaxWireFrames
    /\ wire' = wire \o writeFrame(frm)
    /\ wrote' = Append(wrote, frm)
    /\ lastWrite' = [via |-> "writeFrame", len |-> Len(frm.Value), err |-> "nil",
                     put |-> Len(writeFrame(frm))]
    /\ UNCHANGED <<readBack, peerSent>>
    /\ CodecFrame

\* the error of session.writeInput for a marshalled value that is too long
ErrTooLong == "length is larger than maximum value length"

\* session.writeInput for a key press whose marshalled value has n bytes: the length
\* is checked before the frame is made and written
writeInput(n) ==
    /\ Len(wrote) < MaxWireFrames
    /\ IF n > ValueMaxLength
       THEN /\ lastWrite' = [via |-> "writeInput", len |-> n, err |-> ErrTooLong, put |-> 0]
            /\ UNCHANGED <<wire, wrote>>
       ELSE LET frm == Frame(TagKeyPress, Uint16(n), ValueBytes(TagKeyPress, n))
            IN  /\ wire' = wire \o writeFrame(frm)
                /\ wrote' = Append(wrote, frm)
                /\ lastWrite' = [via |-> "writeInput", len |-> n, err |-> "nil",
                                 put |-> Len(writeFrame(frm))]
    /\ UNCHANGED <<readBack, peerSent>>
    /\ CodecFrame

\* readFrame on the stream
ReadFrame ==
    /\ ReadFrameReady(wire)
    /\ LET r == readFrame(wire)
       IN  /\ readBack' = Append(readBack, r)
           /\ wire' = SubSeq(wire, r.consumed + 1, Len(wire))
    /\ UNCHANGED <<wrote, lastWrite, peerSent>>
    /\ CodecFrame

CodecNext ==
    \/ \E frm \in Frames : WriteFrame(frm)
    \/ \E n \in FrameLengths : writeInput(n)
    \/ ReadFrame

(***************************************************************************)
(* readFrame on a stream whose bytes come from a peer that need not send   *)
(* whole frames.                                                           *)
(***************************************************************************)
MaxPeerSends == 3

\* the header of the spec's example, 00 01 04 00: a mouse move of 1024 bytes
OversizeLength == ValueMaxLength + 4
OversizeHeader == writeUint16(TagMouseMove) \o writeUint16(OversizeLength)

\* what the peer sends in one piece: that header, the value bytes it announces, a whole
\* ping frame, a whole key press frame
PeerChunks ==
    {OversizeHeader,
     ValueBytes(TagMouseMove, OversizeLength),
     writeFrame(Frame(TagPing, 0, <<>>)),
     writeFrame(Frame(TagKeyPress, 1, ValueBytes(TagKeyPress, 1)))}

\* the peer writes a chunk to the connection
PeerSend(chunk) ==
    /\ Len(peerSent) < MaxPeerSends
    /\ peerSent' = Append(peerSent, chunk)
    /\ wire' = wire \o chunk
    /\ UNCHANGED <<wrote, readBack, lastWrite>>
    /\ CodecFrame

DecodeNext ==
    \/ \E chunk \in PeerChunks : PeerSend(chunk)
    \/ ReadFrame

(***************************************************************************)
(* TLS with pinned certificates (terong/transport tls.go).  A certificate  *)
(* is self-signed and stands for its key pair; a pool holds the one        *)
(* certificate that was configured.                                        *)
(***************************************************************************)
NumCerts == 3
Certs == 1..NumCerts

\* the bytes the client writes once it is connected
Hello == <<104, 101, 108, 108, 111>>

\* x509 Certificate.Verify against a pool
VerifiedBy(cert, pool) == cert \in pool

\* the variables of the other subsystems
TlsFrame == UNCHANGED <<tsVars, ctlVars, srcVars, nzVars, codecVars, clientVars,
                pipeVars, genVars, extVars>>

\* neither side has been configured
NoTlsConfig == [serverCert |-> 0, serverPool |-> {}, clientCert |-> 0, clientPool |-> {}]

TlsInit ==
    /\ tlsCfg = NoTlsConfig
    /\ tlsClient = "none"
    /\ tlsDialErr = "nil"
    /\ tlsServer = "none"
    /\ tlsReadErr = "nil"
    /\ tlsRead = <<>>

\* CreateTLSListener(serverCert, serverKey, pinnedClient) and CreateTLSDialer(clientCert,
\* clientKey, pinnedServer): each side has a certificate of its own and a pool holding
\* the certificate it pinned; the listener accepts the TCP connection
CreateTLS(serverCert, pinnedClient, clientCert, pinnedServer) ==
    /\ tlsClient = "none"
    /\ tlsCfg' = [serverCert |-> serverCert, serverPool |-> {pinnedClient},
                  clientCert |-> clientCert, clientPool |-> {pinnedServer}]
    /\ tlsClient' = "idle"
    /\ tlsServer' = "accepted"
    /\ UNCHANGED <<tlsDialErr, tlsReadErr, tlsRead>>
    /\ TlsFrame

\* DialContext without the VerifyConnection callback (InsecureSkipVerify alone)
DialContextNoVerify ==
    /\ tlsClient = "idle"
    /\ tlsClient' = "connected"
    /\ tlsDialErr' = "nil"
    /\ UNCHANGED <<tlsCfg, tlsServer, tlsReadErr, tlsRead>>
    /\ TlsFrame

\* tls.Dialer.DialContext: the handshake runs VerifyConnection, which verifies the
\* server's certificate against the pool of the dialer
DialContext ==
    /\ tlsClient = "idle"
    /\ IF VerifiedBy(tlsCfg.serverCert, tlsCfg.clientPool)
       THEN tlsClient' = "connected" /\ tlsDialErr' = "nil"
       ELSE tlsClient' = "failed" /\ tlsDialErr' = "UnknownAuthorityError"
    /\ UNCHANGED <<tlsCfg, tlsServer, tlsReadErr, tlsRead>>
    /\ TlsFrame

\* conn.Write on the dialling side
ClientWrite ==
    /\ tlsClient = "connected"
    /\ tlsClient' = "wrote"
    /\ UNCHANGED <<tlsCfg, tlsDialErr, tlsServer, tlsReadErr, tlsRead>>
    /\ TlsFrame

\* the read on the accepting side completes the handshake: with ClientAuth
\* RequireAndVerifyClientCert the client's certificate is verified against ClientCAs;
\* a client that gave up the handshake leaves the read with an alert; otherwise the
\* read returns once the bytes have been written
ServerRead ==
    /\ tlsServer = "accepted"
    /\ tlsClient \in {"connected", "wrote", "failed"}
    /\ IF tlsClient = "failed"
       THEN /\ tlsServer' = "failed"
            /\ tlsReadErr' = "remote error"
            /\ UNCHANGED tlsRead
       ELSE IF ~VerifiedBy(tlsCfg.clientCert, tlsCfg.serverPool)
       THEN /\ tlsServer' = "failed"
            /\ tlsReadErr' = "CertificateVerificationError"
            /\ UNCHANGED tlsRead
       ELSE /\ tlsClient = "wrote"
            /\ tlsServer' = "read"
            /\ tlsRead' = Hello
            /\ UNCHANGED tlsReadErr
    /\ UNCHANGED <<tlsCfg, tlsClient, tlsDialErr>>
    /\ TlsFrame

TlsNext ==
    \/ \E sc, pc, cc, ps \in Certs : CreateTLS(sc, pc, cc, ps)
    \/ DialContext
    \/ ClientWrite
    \/ ServerRead

(***************************************************************************)
(* The transport client: Start (the dial loop) and runSession.             *)
(***************************************************************************)
MaxDials == 3

\* transport.ReconnectDelay, in seconds
ReconnectDelay == 5

NoTime == 0 - 1

\* the variables of the other subsystems
ClientFrame == UNCHANGED <<tsVars, ctlVars, srcVars, nzVars, codecVars, tlsVars, pipeVars,
                           genVars, extVars>>

\* a count of seconds one second later; counting stops at ReconnectDelay
Later(x) == IF x = NoTime \/ x >= ReconnectDelay THEN x ELSE x + 1

\* one attempt of dialer.DialContext, started now
DialAttempt == [gap |-> cSinceDial, since |-> cSinceEnded]

\* Start: h is made, the goroutine is in its first DialContext, sess is nil
ClientInit ==
    /\ cSinceDial = 0
    /\ cCtxDone = FALSE
    /\ cPC = "dial"
    /\ cWaited = NoTime
    /\ cSess = "nil"
    /\ cSessPC = "none"
    /\ cDone = <<>>
    /\ cSendFired = FALSE
    /\ cRecvFired = FALSE
    /\ cInputsClosed = FALSE
    /\ hErr = "nil"
    /\ cLastErr = "nil"
    /\ cSinceEnded = NoTime
    /\ cDials = <<[gap |-> NoTime, since |-> NoTime]>>

\* time passes
ClientTick ==
    /\ cSinceDial' = Later(cSinceDial)
    /\ cWaited' = Later(cWaited)
    /\ cSinceEnded' = Later(cSinceEnded)
    /\ UNCHANGED <<cCtxDone, cPC, cSess, cSessPC, cDone, cSendFired, cRecvFired,
                   cInputsClosed, hErr, cLastErr, cDials>>
    /\ ClientFrame

\* the caller cancels ctx
ClientCancel ==
    /\ ~cCtxDone
    /\ cCtxDone' = TRUE
    /\ UNCHANGED <<cSinceDial, cPC, cWaited, cSess, cSessPC, cDone, cSendFired, cRecvFired,
                   cInputsClosed, hErr, cLastErr, cSinceEnded, cDials>>
    /\ ClientFrame

\* DialContext returns an error (refused, ConnectTimeout, handshake, ctx): goto reconnect
DialFail ==
    /\ cPC = "dial"
    /\ cPC' = "wait"
    /\ cWaited' = 0
    /\ cSinceEnded' = 0
    /\ UNCHANGED <<cSinceDial, cCtxDone, cSess, cSessPC, cDone, cSendFired, cRecvFired,
                   cInputsClosed, hErr, cLastErr, cDials>>
    /\ ClientFrame

\* DialContext returns a connection: sess = newSession(ctx, conn); runSession(...);
\* the goroutine then waits on sess.done
DialOk ==
    /\ cPC = "dial"
    /\ ~cCtxDone
    /\ cPC' = "session"
    /\ cSess' = "open"
    /\ cSessPC' = "loop"
    /\ cDone' = <<>>
    /\ cSendFired' = FALSE
    /\ cRecvFired' = FALSE
    /\ UNCHANGED <<cSinceDial, cCtxDone, cWaited, cInputsClosed, hErr, cLastErr,
                   cSinceEnded, cDials>>
    /\ ClientFrame

\* err = <-sess.done without sess.Close()
ClientSessionDoneNoClose ==
    /\ cPC = "session"
    /\ cDone # <<>>
    /\ cLastErr' = Head(cDone)
    /\ cDone' = <<>>
    /\ cPC' = "wait"
    /\ cWaited' = 0
    /\ cSinceEnded' = 0
    /\ UNCHANGED <<cSinceDial, cCtxDone, cSess, cSessPC, cSendFired, cRecvFired,
                   cInputsClosed, hErr, cDials>>
    /\ ClientFrame

\* err = <-sess.done; sess.Close(); then the select of reconnect is entered
ClientSessionDone ==
    /\ cPC = "session"
    /\ cDone # <<>>
    /\ cLastErr' = Head(cDone)
    /\ cDone' = <<>>
    /\ cSess' = "closed"
    /\ cPC' = "wait"
    /\ cWaited' = 0
    /\ cSinceEnded' = 0
    /\ UNCHANGED <<cSinceDial, cCtxDone, cSessPC, cSendFired, cRecvFired, cInputsClosed,
                   hErr, cDials>>
    /\ ClientFrame

\* reconnect without the delay: the select is left at once
ReconnectNoDelay ==
    /\ cPC = "wait"
    /\ Len(cDials) < MaxDials
    /\ cPC' = "dial"
    /\ cDials' = Append(cDials, DialAttempt)
    /\ cSinceDial' = 0
    /\ UNCHANGED <<cCtxDone, cWaited, cSess, cSessPC, cDone, cSendFired, cRecvFired,
                   cInputsClosed, hErr, cLastErr, cSinceEnded>>
    /\ ClientFrame

\* case <-time.After(transport.ReconnectDelay): the loop goes round to DialContext
ReconnectTimer ==
    /\ cPC = "wait"
    /\ cWaited >= ReconnectDelay
    /\ Len(cDials) < MaxDials
    /\ cPC' = "dial"
    /\ cDials' = Append(cDials, DialAttempt)
    /\ cSinceDial' = 0
    /\ UNCHANGED <<cCtxDone, cWaited, cSess, cSessPC, cDone, cSendFired, cRecvFired,
                   cInputsClosed, hErr, cLastErr, cSinceEnded>>
    /\ ClientFrame

\* case <-ctx.Done() of reconnect: h.err = ctx.Err(); return.  The deferred
\* func() { sess.Close() } calls a method promoted through the embedded pointer of a
\* nil *session when no dial has succeeded, which is a nil dereference; the deferred
\* close(h.inputs) runs in either case
ClientCtxDone ==
    /\ cPC = "wait"
    /\ cCtxDone
    /\ hErr' = "context canceled"
    /\ cPC' = IF cSess = "nil" THEN "panicked" ELSE "returned"
    /\ cInputsClosed' = TRUE
    /\ UNCHANGED <<cSinceDial, cCtxDone, cWaited, cSess, cSessPC, cDone, cSendFired, cRecvFired,
                   cLastErr, cSinceEnded, cDials>>
    /\ ClientFrame

\* the goroutine of SetSendPingDeadline wakes up while the loop of runSession runs
ClientSendTimerFire ==
    /\ cSessPC \in {"loop", "sending"}
    /\ ~cSendFired
    /\ cSendFired' = TRUE
    /\ UNCHANGED <<cSinceDial, cCtxDone, cPC, cWaited, cSess, cSessPC, cDone, cRecvFired,
                   cInputsClosed, hErr, cLastErr, cSinceEnded, cDials>>
    /\ ClientFrame

\* the goroutine of SetRecvPingDeadline wakes up while the loop of runSession runs
ClientRecvTimerFire ==
    /\ cSessPC \in {"loop", "sending"}
    /\ ~cRecvFired
    /\ cRecvFired' = TRUE
    /\ UNCHANGED <<cSinceDial, cCtxDone, cPC, cWaited, cSess, cSessPC, cDone, cSendFired,
                   cInputsClosed, hErr, cLastErr, cSinceEnded, cDials>>
    /\ ClientFrame

\* the function literal of runSession returns err: sess.done <- err
ClientSessionReturns(err) ==
    /\ cSessPC' = "exited"
    /\ cDone' = Append(cDone, err)

\* runSession, case <-ctx.Done()
ClientSessCtxDone ==
    /\ cSessPC = "loop"
    /\ cCtxDone
    /\ ClientSessionReturns("context canceled")
    /\ UNCHANGED <<cSinceDial, cCtxDone, cPC, cWaited, cSess, cSendFired, cRecvFired,
                   cInputsClosed, hErr, cLastErr, cSinceEnded, cDials>>
    /\ ClientFrame

\* runSession, case <-sess.SendPingDeadline(): SendPing writes a ping and sets the
\* deadline again, or fails
ClientSessSendPing(ok) ==
    /\ cSessPC = "loop"
    /\ cSendFired
    /\ IF ok
       THEN /\ cSendFired' = FALSE
            /\ UNCHANGED <<cSessPC, cDone>>
       ELSE /\ ClientSessionReturns("failed to write ping")
            /\ UNCHANGED cSendFired
    /\ UNCHANGED <<cSinceDial, cCtxDone, cPC, cWaited, cSess, cRecvFired, cInputsClosed,
                   hErr, cLastErr, cSinceEnded, cDials>>
    /\ ClientFrame

\* runSession, case <-sess.RecvPingDeadline()
ClientSessRecvTimeout ==
    /\ cSessPC = "loop"
    /\ cRecvFired
    /\ ClientSessionReturns("ErrPingTimedOut")
    /\ UNCHANGED <<cSinceDial, cCtxDone, cPC, cWaited, cSess, cSendFired, cRecvFired,
                   cInputsClosed, hErr, cLastErr, cSinceEnded, cDials>>
    /\ ClientFrame

\* runSession, case frm := <-sess.Inbox() with TagPing: sess.SetRecvPingDeadline()
ClientSessInboxPing ==
    /\ cSessPC = "loop"
    /\ cRecvFired' = FALSE
    /\ UNCHANGED <<cSinceDial, cCtxDone, cPC, cWaited, cSess, cSessPC, cDone, cSendFired,
                   cInputsClosed, hErr, cLastErr, cSinceEnded, cDials>>
    /\ ClientFrame

\* runSession, case frm := <-sess.Inbox() with the tag of an event: the goroutine
\* enters inputs <- event
ClientSessInboxEvent ==
    /\ cSessPC = "loop"
    /\ cSessPC' = "sending"
    /\ UNCHANGED <<cSinceDial, cCtxDone, cPC, cWaited, cSess, cDone, cSendFired, cRecvFired,
                   cInputsClosed, hErr, cLastErr, cSinceEnded, cDials>>
    /\ ClientFrame

\* the consumer receives from h.Inputs(): inputs <- event completes
ConsumerTake ==
    /\ cSessPC = "sending"
    /\ cSessPC' = "loop"
    /\ UNCHANGED <<cSinceDial, cCtxDone, cPC, cWaited, cSess, cDone, cSendFired, cRecvFired,
                   cInputsClosed, hErr, cLastErr, cSinceEnded, cDials>>
    /\ ClientFrame

\* runSession, case _, ok := <-sess.Inbox() with ok false: return sess.InboxErr()
ClientSessInboxClosed ==
    /\ cSessPC = "loop"
    /\ ClientSessionReturns("InboxErr")
    /\ UNCHANGED <<cSinceDial, cCtxDone, cPC, cWaited, cSess, cSendFired, cRecvFired,
                   cInputsClosed, hErr, cLastErr, cSinceEnded, cDials>>
    /\ ClientFrame

ClientNext ==
    \/ ClientTick
    \/ ClientCancel
    \/ DialFail
    \/ DialOk
    \/ ClientSessionDone
    \/ ReconnectTimer
    \/ ClientCtxDone
    \/ ClientSendTimerFire
    \/ ClientRecvTimerFire
    \/ ClientSessCtxDone
    \/ \E ok \in BOOLEAN : ClientSessSendPing(ok)
    \/ ClientSessRecvTimeout
    \/ ClientSessInboxPing
    \/ ClientSessInboxEvent
    \/ ConsumerTake
    \/ ClientSessInboxClosed

(***************************************************************************)
(* From the control loop to the consumer.  One client; a session of the    *)
(* server and the session of the client on the same connection carry the   *)
(* same number.                                                            *)
(***************************************************************************)
\* the variables of the other subsystems
PipeFrame ==
    UNCHANGED <<tsVars, ctlVars, srcVars, nzVars, codecVars, tlsVars, clientVars, genVars,
                extVars>>

\* run has sess = emptySession(); the client has not connected
PipeInit ==
    /\ pNext = 0
    /\ pOffer = <<>>
    /\ pSess = 0
    /\ pLoop = "none"
    /\ pClosed = TRUE
    /\ pSlot = <<>>
    /\ pWire = <<>>
    /\ pPings = 0
    /\ pConn = 0
    /\ pRead = 0
    /\ pInbox = <<>>
    /\ pHand = <<>>
    /\ pDelivered = <<>>

\* a new session that takes over the inputs channel of the one before it
PipeConnectKeepSlot ==
    /\ pConn = 0
    /\ pClosed
    /\ pSess < MaxConns
    /\ pSess' = pSess + 1
    /\ pLoop' = "running"
    /\ pClosed' = FALSE
    /\ pWire' = <<>>
    /\ pPings' = 0
    /\ pConn' = pSess + 1
    /\ pRead' = 0
    /\ pInbox' = <<>>
    /\ pHand' = <<>>
    /\ UNCHANGED <<pNext, pOffer, pSlot, pDelivered>>
    /\ PipeFrame

\* the client's DialContext succeeds and run takes the connection while sess is closed:
\* both sides make their session with newSession, which makes a new inputs channel on
\* the server, and start runSession
PipeConnect ==
    /\ pConn = 0
    /\ pClosed
    /\ pSess < MaxConns
    /\ pSess' = pSess + 1
    /\ pLoop' = "running"
    /\ pClosed' = FALSE
    /\ pSlot' = <<>>
    /\ pWire' = <<>>
    /\ pPings' = 0
    /\ pConn' = pSess + 1
    /\ pRead' = 0
    /\ pInbox' = <<>>
    /\ pHand' = <<>>
    /\ UNCHANGED <<pNext, pOffer, pDelivered>>
    /\ PipeFrame

\* run, case input := <-inputs: the non-blocking send on sess.inputs (nil for
\* emptySession())
PipeForward ==
    /\ pNext < MaxInputs
    /\ pNext' = pNext + 1
    /\ pOffer' = Append(pOffer, [sess |-> pSess, active |-> pLoop = "running" /\ ~pClosed])
    /\ pSlot' = IF pSess # 0 /\ Len(pSlot) < 1 THEN Append(pSlot, pNext + 1) ELSE pSlot
    /\ UNCHANGED <<pSess, pLoop, pClosed, pWire, pPings, pConn, pRead, pInbox, pHand,
                   pDelivered>>
    /\ PipeFrame

\* runSession (server), case input := <-sess.inputs, writing the frame twice
PipeWriteInputTwice(ok) ==
    /\ pLoop = "running"
    /\ pSlot # <<>>
    /\ pSlot' = Tail(pSlot)
    /\ IF ok
       THEN pWire' = pWire \o <<Head(pSlot), Head(pSlot)>> /\ UNCHANGED pLoop
       ELSE pLoop' = "exited" /\ UNCHANGED pWire
    /\ UNCHANGED <<pNext, pOffer, pSess, pClosed, pPings, pConn, pRead, pInbox, pHand,
                   pDelivered>>
    /\ PipeFrame

\* runSession (server), case input := <-sess.inputs: sess.writeInput(input) puts the
\* frame on the connection, or fails (marshalling, length, write deadline, connection)
\* and the loop returns the error
PipeWriteInput(ok) ==
    /\ pLoop = "running"
    /\ pSlot # <<>>
    /\ pSlot' = Tail(pSlot)
    /\ IF ok
       THEN pWire' = Append(pWire, Head(pSlot)) /\ UNCHANGED pLoop
       ELSE pLoop' = "exited" /\ UNCHANGED pWire
    /\ UNCHANGED <<pNext, pOffer, pSess, pClosed, pPings, pConn, pRead, pInbox, pHand,
                   pDelivered>>
    /\ PipeFrame

\* runSession (server), case <-sess.SendPingDeadline(): a ping frame goes on the
\* connection
PipeWritePing ==
    /\ pLoop = "running"
    /\ pPings < MaxPingSets
    /\ pPings' = pPings + 1
    /\ pWire' = Append(pWire, PingFrame)
    /\ UNCHANGED <<pNext, pOffer, pSess, pLoop, pClosed, pSlot, pConn, pRead, pInbox,
                   pHand, pDelivered>>
    /\ PipeFrame

\* runSession (server) returns for another reason: ctx, ping timeout, inbox closed
PipeServerExit ==
    /\ pLoop = "running"
    /\ pLoop' = "exited"
    /\ UNCHANGED <<pNext, pOffer, pSess, pClosed, pSlot, pWire, pPings, pConn, pRead,
                   pInbox, pHand, pDelivered>>
    /\ PipeFrame

\* run, case err := <-sess.done: sess.Close()
PipeRunDone ==
    /\ pLoop = "exited"
    /\ ~pClosed
    /\ pClosed' = TRUE
    /\ UNCHANGED <<pNext, pOffer, pSess, pLoop, pSlot, pWire, pPings, pConn, pRead,
                   pInbox, pHand, pDelivered>>
    /\ PipeFrame

\* the reader goroutine of the client's Session: s.ReadFrame() returns the next frame
\* of the connection, which is then offered on s.inbox
PipeReaderRead ==
    /\ pConn # 0
    /\ pInbox = <<>>
    /\ pRead < Len(pWire)
    /\ pRead' = pRead + 1
    /\ pInbox' = <<pWire[pRead + 1]>>
    /\ UNCHANGED <<pNext, pOffer, pSess, pLoop, pClosed, pSlot, pWire, pPings, pConn,
                   pHand, pDelivered>>
    /\ PipeFrame

\* runSession (client), case frm := <-sess.Inbox(): a ping is noted, an event frame is
\* unmarshalled and, unless that fails, sent on inputs
PipeInboxTake(ok) ==
    /\ pConn # 0
    /\ pInbox # <<>>
    /\ pHand = <<>>
    /\ pInbox' = <<>>
    /\ pHand' = IF Head(pInbox) # PingFrame /\ ok THEN pInbox ELSE <<>>
    /\ UNCHANGED <<pNext, pOffer, pSess, pLoop, pClosed, pSlot, pWire, pPings, pConn,
                   pRead, pDelivered>>
    /\ PipeFrame

\* the consumer receives from h.Inputs(): inputs <- event completes
PipeConsumerTake ==
    /\ pHand # <<>>
    /\ pDelivered' = Append(pDelivered, [sess |-> pConn, id |-> Head(pHand)])
    /\ pHand' = <<>>
    /\ UNCHANGED <<pNext, pOffer, pSess, pLoop, pClosed, pSlot, pWire, pPings, pConn,
                   pRead, pInbox>>
    /\ PipeFrame

\* runSession (client) returns (ctx, ping timeout, failed ping, inbox closed) and Start
\* closes the session
PipeClientExit ==
    /\ pConn # 0
    /\ pHand = <<>>
    /\ pConn' = 0
    /\ pInbox' = <<>>
    /\ UNCHANGED <<pNext, pOffer, pSess, pLoop, pClosed, pSlot, pWire, pPings, pRead,
                   pHand, pDelivered>>
    /\ PipeFrame

PipeNext ==
    \/ PipeConnect
    \/ PipeForward
    \/ \E ok \in BOOLEAN : PipeWriteInput(ok)
    \/ PipeWritePing
    \/ PipeServerExit
    \/ PipeRunDone
    \/ PipeReaderRead
    \/ \E ok \in BOOLEAN : PipeInboxTake(ok)
    \/ PipeConsumerTake
    \/ PipeClientExit

(***************************************************************************)
(* The control loop together with the way to the client: the input the     *)
(* control loop sends on events is the one run of the transport offers to  *)
(* its session.                                                            *)
(***************************************************************************)
\* the inputs the control loop forwards at most
MaxForwarded == 4

\* the right control key is tapped, one reading of the clock every 40 ms
TapInputs == {KeyPress(RightCtrl, KeyActionDown), KeyPress(RightCtrl, KeyActionUp)}
TapDelta == 40 * TicksPerMilli

\* the variables of the subsystems that neither the control loop nor the way to the
\* client touches
RelayPipeFrame ==
    UNCHANGED <<tsVars, srcVars, nzVars, codecVars, tlsVars, clientVars, genVars, extVars>>

\* the control loop's events <- input and run's case input := <-inputs are one step of
\* an unbuffered channel; here relay flips on a detected gesture only while the session
\* is active
RunTakesInputWhenActive ==
    /\ ctlPC = "sending"
    /\ pNext < MaxForwarded
    /\ events' = Append(events, pending)
    /\ IF pLoop = "running" /\ ~pClosed
       THEN HandleKey(pending, now)
       ELSE LET buf2 == Push(buffer, pending, now)
                r == toggleKeyStrokeExists(buf2, toggledAt)
            IN  /\ buffer' = buf2
                /\ lastCall' = [after |-> toggledAt, yes |-> r.yes, at |-> r.at,
                                counted |-> r.counted, input |-> pending, now |-> now]
                /\ UNCHANGED <<hist, relay, toggledAt, captureReqs>>
    /\ ctlPC' = "select"
    /\ pending' = NilEvent
    /\ pNext' = pNext + 1
    /\ pOffer' = Append(pOffer, [sess |-> pSess, active |-> pLoop = "running" /\ ~pClosed])
    /\ pSlot' = IF pSess # 0 /\ Len(pSlot) < 1 THEN Append(pSlot, pNext + 1) ELSE pSlot
    /\ UNCHANGED <<now, held, normPrev, nEvents, ctlDone>>
    /\ UNCHANGED <<pSess, pLoop, pClosed, pWire, pPings, pConn, pRead, pInbox, pHand,
                   pDelivered>>
    /\ RelayPipeFrame

\* the control loop's events <- input and run's case input := <-inputs are one step of
\* an unbuffered channel: run offers the input to sess.inputs without blocking, and the
\* control loop goes on with the key handling
RunTakesInput ==
    /\ ctlPC = "sending"
    /\ pNext < MaxForwarded
    /\ events' = Append(events, pending)
    /\ HandleKey(pending, now)
    /\ ctlPC' = "select"
    /\ pending' = NilEvent
    /\ pNext' = pNext + 1
    /\ pOffer' = Append(pOffer, [sess |-> pSess, active |-> pLoop = "running" /\ ~pClosed])
    /\ pSlot' = IF pSess # 0 /\ Len(pSlot) < 1 THEN Append(pSlot, pNext + 1) ELSE pSlot
    /\ UNCHANGED <<now, held, normPrev, nEvents, ctlDone>>
    /\ UNCHANGED <<pSess, pLoop, pClosed, pWire, pPings, pConn, pRead, pInbox, pHand,
                   pDelivered>>
    /\ RelayPipeFrame

\* the source reports one input more than the control loop may forward
TapInput(raw) ==
    /\ nEvents <= MaxForwarded
    /\ SourceInput(raw, TapDelta)

RelayPipeNext ==
    \/ \E raw \in RawInputs \cap TapInputs : TapInput(raw)
    \/ RunTakesInput
    \/ PipeConnect
    \/ PipeWriteInput(TRUE)
    \/ PipeServerExit
    \/ PipeRunDone
    \/ PipeReaderRead
    \/ PipeInboxTake(TRUE)
    \/ PipeConsumerTake
    \/ PipeClientExit

(***************************************************************************)
(* Start and run of the program: restart on a configuration change.        *)
(***************************************************************************)
MaxGens == 3

\* the variables of the other subsystems
GenFrame ==
    UNCHANGED <<tsVars, ctlVars, srcVars, nzVars, codecVars, tlsVars, clientVars, pipeVars,
                extVars>>

\* run(runCtx, cfg) has started its goroutine, which started the transport and the sink
NewGeneration ==
    [cancelled |-> FALSE, run |-> "running", transport |-> "running", sink |-> "running"]

\* nothing of the generation is running any more
FullyStopped(g) == g.run = "returned" /\ g.transport = "stopped" /\ g.sink = "stopped"

\* the deferred cancelRun calls, and the contexts derived from a cancelled ctx
CancelAll(gs) == [i \in 1..Len(gs) |-> [gs[i] EXCEPT !.cancelled = TRUE]]

\* Start has read the configuration and started the first generation
GenInit ==
    /\ gens = <<NewGeneration>>
    /\ startPC = "select"

\* Start, case cfg, ok = <-watcher.Configs(): cancelRun(); goto restart, where
\* run(runCtx, cfg) starts the next generation
StartConfigChanged ==
    /\ startPC = "select"
    /\ Len(gens) < MaxGens
    /\ gens' = Append([gens EXCEPT ![Len(gens)].cancelled = TRUE], NewGeneration)
    /\ UNCHANGED startPC
    /\ GenFrame

\* Start, case err := <-runDone: the goroutine of the latest run has returned
StartRunDone ==
    /\ startPC = "select"
    /\ gens[Len(gens)].run = "returned"
    /\ startPC' = "returned"
    /\ gens' = CancelAll(gens)
    /\ GenFrame

\* Start, case <-ctx.Done(), or the watcher's channel is closed
StartCtxDone ==
    /\ startPC = "select"
    /\ startPC' = "returned"
    /\ gens' = CancelAll(gens)
    /\ GenFrame

\* run, case <-ctx.Done() / case err := <-sinkDone / transport.Inputs() closed: the
\* goroutine returns and sends on done
GenRunReturns(i) ==
    /\ gens[i].run = "running"
    /\ gens[i].cancelled \/ gens[i].sink = "stopped" \/ gens[i].transport = "stopped"
    /\ gens' = [gens EXCEPT ![i].run = "returned"]
    /\ UNCHANGED startPC
    /\ GenFrame

\* the transport's goroutine sees its context cancelled and returns
GenTransportStops(i) ==
    /\ gens[i].transport = "running"
    /\ gens[i].cancelled
    /\ gens' = [gens EXCEPT ![i].transport = "stopped"]
    /\ UNCHANGED startPC
    /\ GenFrame

\* the sink's goroutine returns: its context is cancelled, or it fails
GenSinkStops(i) ==
    /\ gens[i].sink = "running"
    /\ gens' = [gens EXCEPT ![i].sink = "stopped"]
    /\ UNCHANGED startPC
    /\ GenFrame

GenNext ==
    \/ StartConfigChanged
    \/ StartRunDone
    \/ StartCtxDone
    \/ \E i \in 1..MaxGens : i <= Len(gens) /\ GenRunReturns(i)
    \/ \E i \in 1..MaxGens : i <= Len(gens) /\ GenTransportStops(i)
    \/ \E i \in 1..MaxGens : i <= Len(gens) /\ GenSinkStops(i)

(***************************************************************************)
(* The receive-ping deadline, in seconds.                                  *)
(***************************************************************************)
PingTimeout == 10
MaxAge == 20

\* the variables of the other subsystems
DlFrame ==
    UNCHANGED <<tsVars, ctlVars, srcVars, nzVars, codecVars, tlsVars, clientVars, pipeVars,
                genVars, clVars, rxVars, hkVars, kbVars, wrVars>>

\* NewSession: s.SetRecvPingDeadline() starts the first timer; runSession starts
DlInit ==
    /\ dlSince = 0
    /\ dlFired = FALSE
    /\ dlInbox = 0
    /\ dlLoop = "running"
    /\ dlErr = "nil"
    /\ dlGap = 0
    /\ dlAge = 0

\* a second passes
DlTick ==
    /\ dlLoop = "running"
    /\ dlSince' = IF dlSince < PingTimeout THEN dlSince + 1 ELSE dlSince
    /\ dlGap' = IF dlGap < PingTimeout THEN dlGap + 1 ELSE dlGap
    /\ dlAge' = IF dlAge < MaxAge THEN dlAge + 1 ELSE dlAge
    /\ UNCHANGED <<dlFired, dlInbox, dlLoop, dlErr>>
    /\ DlFrame

\* SetRecvPingDeadline, the timer goroutine: after time.Sleep(PingTimeout) it sends on
\* the channel it was made for
DlTimerFire ==
    /\ dlLoop = "running"
    /\ dlSince = PingTimeout
    /\ ~dlFired
    /\ dlFired' = TRUE
    /\ UNCHANGED <<dlSince, dlInbox, dlLoop, dlErr, dlGap, dlAge>>
    /\ DlFrame

\* the reader goroutine: s.ReadFrame() returns a frame of the peer, offered on the inbox
DlReaderRead(tag) ==
    /\ dlLoop = "running"
    /\ dlInbox = 0
    /\ dlInbox' = tag
    /\ UNCHANGED <<dlSince, dlFired, dlLoop, dlErr, dlGap, dlAge>>
    /\ DlFrame

\* runSession, case frm := <-sess.Inbox(), with a ping that leaves the deadline alone
DlInboxFrameNoReset ==
    /\ dlLoop = "running"
    /\ dlInbox # 0
    /\ dlInbox' = 0
    /\ UNCHANGED <<dlSince, dlFired>>
    /\ dlGap' = IF dlInbox = TagPing THEN 0 ELSE dlGap
    /\ UNCHANGED <<dlLoop, dlErr, dlAge>>
    /\ DlFrame

\* runSession, case frm := <-sess.Inbox(): for a ping sess.SetRecvPingDeadline() makes a
\* new channel with a new timer; the old channel, fired or not, is dropped
DlInboxFrame ==
    /\ dlLoop = "running"
    /\ dlInbox # 0
    /\ dlInbox' = 0
    /\ IF dlInbox = TagPing
       THEN dlSince' = 0 /\ dlFired' = FALSE
       ELSE UNCHANGED <<dlSince, dlFired>>
    /\ dlGap' = IF dlInbox = TagPing THEN 0 ELSE dlGap
    /\ UNCHANGED <<dlLoop, dlErr, dlAge>>
    /\ DlFrame

\* runSession, case <-sess.RecvPingDeadline(): return transport.ErrPingTimedOut
DlRecvTimeout ==
    /\ dlLoop = "running"
    /\ dlFired
    /\ dlLoop' = "exited"
    /\ dlErr' = "pingTimedOut"
    /\ UNCHANGED <<dlSince, dlFired, dlInbox, dlGap, dlAge>>
    /\ DlFrame

\* runSession returns for another reason: ctx, a failed write, the inbox closed
DlOtherExit ==
    /\ dlLoop = "running"
    /\ dlLoop' = "exited"
    /\ dlErr' = "other"
    /\ UNCHANGED <<dlSince, dlFired, dlInbox, dlGap, dlAge>>
    /\ DlFrame

DlNext ==
    \/ DlTick
    \/ DlTimerFire
    \/ \E tag \in PeerTags : DlReaderRead(tag)
    \/ DlInboxFrame
    \/ DlRecvTimeout
    \/ DlOtherExit

(***************************************************************************)
(* Session.Close, statement by statement, for a session made by            *)
(* NewSession.  The first test of s.closed is made without the lock: it    *)
(* may see the value another caller has written or still the old one.      *)
(***************************************************************************)
MaxClosers == 2
MaxCloseCalls == 2

Closers == 1..MaxClosers

\* the variables of the other subsystems
ClFrame ==
    UNCHANGED <<tsVars, ctlVars, srcVars, nzVars, codecVars, tlsVars, clientVars, pipeVars,
                genVars, dlVars, rxVars, hkVars, kbVars, wrVars>>

\* NewSession: the connection is open, closed is false, nobody holds the mutex
ClInit ==
    /\ clPC = [g \in Closers |-> "idle"]
    /\ clCalls = [g \in Closers |-> 0]
    /\ clMu = 0
    /\ clClosed = FALSE
    /\ clConnCloses = 0
    /\ clCancelled = FALSE

\* Close is called: s is not nil, s.cancelInbox() is deferred
CloseCall(g) ==
    /\ clPC[g] = "idle"
    /\ clCalls[g] < MaxCloseCalls
    /\ clCalls' = [clCalls EXCEPT ![g] = @ + 1]
    /\ clPC' = [clPC EXCEPT ![g] = "check"]
    /\ UNCHANGED <<clMu, clClosed, clConnCloses, clCancelled>>
    /\ ClFrame

\* if s.closed { return }, read without the lock
CloseCheck(g, seen) ==
    /\ clPC[g] = "check"
    /\ seen => clClosed
    /\ clPC' = [clPC EXCEPT ![g] = IF seen THEN "return" ELSE "lock"]
    /\ UNCHANGED <<clCalls, clMu, clClosed, clConnCloses, clCancelled>>
    /\ ClFrame

\* s.mu.Lock()
CloseLock(g) ==
    /\ clPC[g] = "lock"
    /\ clMu = 0
    /\ clMu' = g
    /\ clPC' = [clPC EXCEPT ![g] = "recheck"]
    /\ UNCHANGED <<clCalls, clClosed, clConnCloses, clCancelled>>
    /\ ClFrame

\* Close without the second test of s.closed
CloseRecheckSkipped(g) ==
    /\ clPC[g] = "recheck"
    /\ clClosed' = TRUE
    /\ clPC' = [clPC EXCEPT ![g] = "connClose"]
    /\ UNCHANGED <<clCalls, clMu, clConnCloses, clCancelled>>
    /\ ClFrame

\* under the lock: if s.closed { return }; s.closed = true
CloseRecheck(g) ==
    /\ clPC[g] = "recheck"
    /\ IF clClosed
       THEN /\ clPC' = [clPC EXCEPT ![g] = "unlock"]
            /\ UNCHANGED clClosed
       ELSE /\ clClosed' = TRUE
            /\ clPC' = [clPC EXCEPT ![g] = "connClose"]
    /\ UNCHANGED <<clCalls, clMu, clConnCloses, clCancelled>>
    /\ ClFrame

\* s.conn.Close(); its error is only logged
CloseConn(g) ==
    /\ clPC[g] = "connClose"
    /\ clConnCloses' = clConnCloses + 1
    /\ clPC' = [clPC EXCEPT ![g] = "unlock"]
    /\ UNCHANGED <<clCalls, clMu, clClosed, clCancelled>>
    /\ ClFrame

\* the deferred s.mu.Unlock()
CloseUnlock(g) ==
    /\ clPC[g] = "unlock"
    /\ clMu' = 0
    /\ clPC' = [clPC EXCEPT ![g] = "return"]
    /\ UNCHANGED <<clCalls, clClosed, clConnCloses, clCancelled>>
    /\ ClFrame

\* the deferred s.cancelInbox(), and Close returns
CloseReturn(g) ==
    /\ clPC[g] = "return"
    /\ clCancelled' = TRUE
    /\ clPC' = [clPC EXCEPT ![g] = "idle"]
    /\ UNCHANGED <<clCalls, clMu, clClosed, clConnCloses>>
    /\ ClFrame

CloseNext ==
    \/ \E g \in Closers : CloseCall(g)
    \/ \E g \in Closers, seen \in BOOLEAN : CloseCheck(g, seen)
    \/ \E g \in Closers : CloseLock(g)
    \/ \E g \in Closers : CloseRecheck(g)
    \/ \E g \in Closers : CloseConn(g)
    \/ \E g \in Closers : CloseUnlock(g)
    \/ \E g \in Closers : CloseReturn(g)

(***************************************************************************)
(* The frames of a peer and the two runSession loops.                      *)
(***************************************************************************)
MaxRxFrames == 2

\* the tags a correctly framed frame can carry that matter here: none of the Tag
\* constants (0, 6), the four event tags, and TagPing
RxTags == 0..6

EventTags == TagMouseMove..TagKeyPress

\* a frame of the peer; only the value of an event frame is ever decoded
RxFrames ==
    {[tag |-> t, decodes |-> d] : t \in EventTags, d \in BOOLEAN}
        \cup {[tag |-> t, decodes |-> FALSE] : t \in RxTags \ EventTags}

Receivers == {"server", "client"}

\* the variables of the other subsystems
RxFrame ==
    UNCHANGED <<tsVars, ctlVars, srcVars, nzVars, codecVars, tlsVars, clientVars, pipeVars,
                genVars, dlVars, clVars, hkVars, kbVars, wrVars>>

\* both sessions are established and nothing has been sent
RxInit ==
    /\ rxWire = <<>>
    /\ rxRead = [r \in Receivers |-> 0]
    /\ rxInbox = [r \in Receivers |-> <<>>]
    /\ rxLoop = [r \in Receivers |-> "running"]
    /\ rxOut = [r \in Receivers |-> <<>>]

\* the peer writes a frame
RxPeerSend(f) ==
    /\ Len(rxWire) < MaxRxFrames
    /\ rxWire' = Append(rxWire, f)
    /\ UNCHANGED <<rxRead, rxInbox, rxLoop, rxOut>>
    /\ RxFrame

\* the reader goroutine: s.ReadFrame() returns the next frame, whatever its tag, and
\* offers it on the inbox
RxReaderRead(r) ==
    /\ rxLoop[r] = "running"
    /\ rxInbox[r] = <<>>
    /\ rxRead[r] < Len(rxWire)
    /\ rxRead' = [rxRead EXCEPT ![r] = @ + 1]
    /\ rxInbox' = [rxInbox EXCEPT ![r] = <<rxWire[rxRead[r] + 1]>>]
    /\ UNCHANGED <<rxWire, rxLoop, rxOut>>
    /\ RxFrame

\* runSession (client) returning the error of unmarshalEvent and ending at an
\* unexpected tag
RxClientFrameFatal ==
    /\ rxLoop["client"] = "running"
    /\ rxInbox["client"] # <<>>
    /\ rxInbox' = [rxInbox EXCEPT !["client"] = <<>>]
    /\ LET frm == Head(rxInbox["client"])
       IN  IF frm.tag \in EventTags /\ frm.decodes
           THEN /\ rxOut' = [rxOut EXCEPT !["client"] = Append(@, frm)]
                /\ UNCHANGED rxLoop
           ELSE IF frm.tag = TagPing
           THEN UNCHANGED <<rxOut, rxLoop>>
           ELSE /\ rxLoop' = [rxLoop EXCEPT !["client"] = "exited"]
                /\ UNCHANGED rxOut
    /\ UNCHANGED <<rxWire, rxRead>>
    /\ RxFrame

\* runSession (client), case frm := <-sess.Inbox(): an event frame is unmarshalled and
\* the event sent on inputs, where the consumer receives it, or the failure is logged;
\* a ping sets the receive deadline; any other tag is logged
RxClientFrame ==
    /\ rxLoop["client"] = "running"
    /\ rxInbox["client"] # <<>>
    /\ rxInbox' = [rxInbox EXCEPT !["client"] = <<>>]
    /\ LET frm == Head(rxInbox["client"])
       IN  IF frm.tag \in EventTags /\ frm.decodes
           THEN rxOut' = [rxOut EXCEPT !["client"] = Append(@, frm)]
           ELSE UNCHANGED rxOut
    /\ UNCHANGED <<rxWire, rxRead, rxLoop>>
    /\ RxFrame

\* runSession (server), case frm := <-sess.Inbox(): a ping sets the receive deadline,
\* any other tag is logged
RxServerFrame ==
    /\ rxLoop["server"] = "running"
    /\ rxInbox["server"] # <<>>
    /\ rxInbox' = [rxInbox EXCEPT !["server"] = <<>>]
    /\ UNCHANGED <<rxWire, rxRead, rxLoop, rxOut>>
    /\ RxFrame

RxNext ==
    \/ \E f \in RxFrames : RxPeerSend(f)
    \/ \E r \in Receivers : RxReaderRead(r)
    \/ RxClientFrame
    \/ RxServerFrame

(***************************************************************************)
(* run of the input source: the statements before the message loop, the    *)
(* ways out of the loop, and the deferred calls.                           *)
(***************************************************************************)
\* what the statements before and after the loop leave alone
HkFrame ==
    /\ UNCHANGED <<msgQueue, hook_event, eat_input, captureInputs, oldCursorPos, cursor,
                   handleInputs, stopCalled, osEvents, recorded, lastSwitch, nTaken>>
    /\ UNCHANGED <<tsVars, ctlVars, nzVars, codecVars, tlsVars, clientVars, pipeVars,
                   genVars, dlVars, clVars, rxVars, kbVars, wrVars>>

\* run is in its message loop: both hooks are installed and their removal is deferred
HkInit ==
    /\ mouseHook = "installed"
    /\ keyboardHook = "installed"
    /\ deferred = <<"UnhookMouse", "UnhookKeyboard">>
    /\ runStep = "running"

\* run is called: nothing is installed yet
RunInit ==
    /\ srcPC = "starting"
    /\ srcErr = "none"
    /\ msgQueue = <<SetCaptureMessage(FALSE)>>
    /\ hook_event = NoHookEvent
    /\ eat_input = FALSE
    /\ captureInputs = FALSE
    /\ oldCursorPos = NilCursorPos
    /\ cursor = StartPoint
    /\ handleInputs = <<>>
    /\ stopCalled = FALSE
    /\ osEvents = <<>>
    /\ recorded = StartPoint
    /\ lastSwitch = "none"
    /\ nTaken = 0
    /\ mouseHook = "none"
    /\ keyboardHook = "none"
    /\ deferred = <<>>
    /\ runStep = "module"

\* a return statement with the error of a failed OS call
RunFails ==
    /\ srcPC' = "returned"
    /\ srcErr' = "oserror"

\* GetModuleHandleExW
RunGetModuleHandle(ok) ==
    /\ srcPC = "starting"
    /\ runStep = "module"
    /\ IF ok
       THEN runStep' = "mouse" /\ UNCHANGED <<srcPC, srcErr>>
       ELSE RunFails /\ UNCHANGED runStep
    /\ UNCHANGED <<mouseHook, keyboardHook, deferred>>
    /\ HkFrame

\* SetWindowsHookExW(WH_MOUSE_LL, ...) and, when it succeeded, the defer of its removal
RunSetMouseHook(ok) ==
    /\ srcPC = "starting"
    /\ runStep = "mouse"
    /\ IF ok
       THEN /\ mouseHook' = "installed"
            /\ deferred' = Append(deferred, "UnhookMouse")
            /\ runStep' = "keyboard"
            /\ UNCHANGED <<srcPC, srcErr>>
       ELSE /\ RunFails
            /\ UNCHANGED <<mouseHook, deferred, runStep>>
    /\ UNCHANGED keyboardHook
    /\ HkFrame

\* SetWindowsHookExW(WH_KEYBOARD_LL, ...) without the defer of its removal
RunSetKeyboardHookNoDefer(ok) ==
    /\ srcPC = "starting"
    /\ runStep = "keyboard"
    /\ IF ok
       THEN /\ keyboardHook' = "installed"
            /\ runStep' = "center"
            /\ UNCHANGED <<srcPC, srcErr>>
       ELSE /\ RunFails
            /\ UNCHANGED <<keyboardHook, runStep>>
    /\ UNCHANGED <<mouseHook, deferred>>
    /\ HkFrame

\* SetWindowsHookExW(WH_KEYBOARD_LL, ...) and, when it succeeded, the defer of its
\* removal
RunSetKeyboardHook(ok) ==
    /\ srcPC = "starting"
    /\ runStep = "keyboard"
    /\ IF ok
       THEN /\ keyboardHook' = "installed"
            /\ deferred' = Append(deferred, "UnhookKeyboard")
            /\ runStep' = "center"
            /\ UNCHANGED <<srcPC, srcErr>>
       ELSE /\ RunFails
            /\ UNCHANGED <<keyboardHook, deferred, runStep>>
    /\ UNCHANGED mouseHook
    /\ HkFrame

\* screenCenter(), after which run enters the message loop
RunScreenCenter(ok) ==
    /\ srcPC = "starting"
    /\ runStep = "center"
    /\ IF ok
       THEN srcPC' = "loop" /\ runStep' = "running" /\ UNCHANGED srcErr
       ELSE RunFails /\ UNCHANGED runStep
    /\ UNCHANGED <<mouseHook, keyboardHook, deferred>>
    /\ HkFrame

\* the message loop: GetLastError reports an error of the iteration before, or
\* get_message returns a negative value
RunLoopFails ==
    /\ srcPC = "loop"
    /\ RunFails
    /\ UNCHANGED hkVars
    /\ HkFrame

\* the message loop: get_message returns 0
RunLoopEnds ==
    /\ srcPC = "loop"
    /\ srcPC' = "returned"
    /\ srcErr' = "nil"
    /\ UNCHANGED hkVars
    /\ HkFrame

\* after the return statement: the deferred call registered last is run
RunDeferred ==
    /\ srcPC = "returned"
    /\ runStep # "done"
    /\ deferred # <<>>
    /\ LET call == deferred[Len(deferred)]
       IN  /\ mouseHook' = IF call = "UnhookMouse" THEN "removed" ELSE mouseHook
           /\ keyboardHook' = IF call = "UnhookKeyboard" THEN "removed" ELSE keyboardHook
    /\ deferred' = SubSeq(deferred, 1, Len(deferred) - 1)
    /\ UNCHANGED <<srcPC, srcErr, runStep>>
    /\ HkFrame

\* no deferred call is left: run has returned to its caller
RunReturns ==
    /\ srcPC = "returned"
    /\ runStep # "done"
    /\ deferred = <<>>
    /\ runStep' = "done"
    /\ UNCHANGED <<srcPC, srcErr, mouseHook, keyboardHook, deferred>>
    /\ HkFrame

RunNext ==
    \/ \E ok \in BOOLEAN : RunGetModuleHandle(ok)
    \/ \E ok \in BOOLEAN : RunSetMouseHook(ok)
    \/ \E ok \in BOOLEAN : RunSetKeyboardHook(ok)
    \/ \E ok \in BOOLEAN : RunScreenCenter(ok)
    \/ SetCaptureInputs
    \/ Stop
    \/ PumpStop
    \/ PumpSetCaptureInputs
    \/ RunLoopFails
    \/ RunLoopEnds
    \/ RunDeferred
    \/ RunReturns

(***************************************************************************)
(* The keyboard hook event in the message loop: the table                  *)
(* keyCodeToVirtualKey and the KeyPress made with it.                      *)
(***************************************************************************)
\* the largest virtual-key code of a keyboard hook event
MaxVirtualKey == 255

\* len(keyCodeToVirtualKey): make([]inputevent.KeyCode, 0xFF)
TableLen == 255

\* the messages the system calls a low-level keyboard hook with
KeyboardMessages == {"WM_KEYDOWN", "WM_SYSKEYDOWN", "WM_KEYUP", "WM_SYSKEYUP"}

\* the indices init assigns: VK_BACK, VK_TAB, VK_RETURN, VK_PAUSE, VK_CAPITAL,
\* VK_ESCAPE, VK_SPACE, VK_PRIOR .. VK_DOWN, VK_SNAPSHOT, VK_INSERT, VK_DELETE, the
\* digits, the letters, VK_LWIN, VK_RWIN, VK_F1 .. VK_F12, VK_SCROLL, VK_LSHIFT ..
\* VK_RMENU, VK_OEM_1 .. VK_OEM_3, VK_OEM_4 .. VK_OEM_7
AssignedCodes ==
    {8, 9, 13, 19, 20, 27, 32} \cup (33..40) \cup {44, 45, 46} \cup (48..57)
        \cup (65..90) \cup {91, 92} \cup (112..123) \cup {145} \cup (160..165)
        \cup (186..192) \cup (219..222)

\* the KeyCode of the zero value: the enumeration of the named keys starts at 1
ZeroKeyCode == 0

\* the named KeyCodes, numbered here in the order of their virtual-key codes
NamedKeyCodes == 1..Cardinality(AssignedCodes)

\* keyCodeToVirtualKey[vk] for an index inside the table: the KeyCode init assigned,
\* the zero value where it assigned none
KeyTable(vk) ==
    IF vk \in AssignedCodes
    THEN Cardinality({c \in AssignedCodes : c <= vk})
    ELSE ZeroKeyCode

KbFrame ==
    UNCHANGED <<tsVars, ctlVars, srcVars, nzVars, codecVars, tlsVars, clientVars, pipeVars,
                genVars, dlVars, clVars, rxVars, hkVars, wrVars>>

\* no keyboard event yet
KbInit ==
    /\ kbSlot = [code |-> "none", vk |-> 0]
    /\ kbPrev = NilEvent
    /\ kbPC = "idle"
    /\ kbInput = NilEvent

\* keyboard_hook_proc has filled hook_event and posted the hook event message; the
\* normalizer has seen nothing, or a key going down or up
KbPosted ==
    /\ kbSlot \in [code : KeyboardMessages, vk : 0..MaxVirtualKey]
    /\ kbPrev \in {NilEvent, KeyPress(KeyTable(VK_A), KeyActionDown),
                   KeyPress(KeyTable(VK_A), KeyActionUp)}
    /\ kbPC = "posted"
    /\ kbInput = NilEvent

\* run, case MESSAGE_CODE_HOOK_EVENT, case WH_KEYBOARD_LL: the index expression panics
\* outside the table; otherwise the KeyPress is normalized and sent on Handle.inputs
KbPumpHookEvent ==
    /\ kbPC = "posted"
    /\ IF kbSlot.vk >= TableLen
       THEN /\ kbPC' = "panicked"
            /\ UNCHANGED <<kbPrev, kbInput>>
       ELSE LET key == KeyTable(kbSlot.vk)
                action == IF kbSlot.code \in {"WM_KEYDOWN", "WM_SYSKEYDOWN"}
                          THEN KeyActionDown
                          ELSE KeyActionUp
                n == Normalize(kbPrev, KeyPress(key, action))
            IN  /\ kbPrev' = n.prev
                /\ kbInput' = n.out
                /\ kbPC' = "handled"
    /\ UNCHANGED kbSlot
    /\ KbFrame

KbNext == KbPumpHookEvent

(***************************************************************************)
(* The writes of runSession on its session: input frames (server) and      *)
(* ping frames (both sides) through Session.WriteFrame.                    *)
(***************************************************************************)
\* the frames one session writes at most
MaxWrites == 3

\* the input frame of the model
InputFrame == "input"

WrFrame ==
    UNCHANGED <<tsVars, ctlVars, srcVars, nzVars, codecVars, tlsVars, clientVars, pipeVars,
                genVars, dlVars, clVars, rxVars, hkVars, kbVars>>

\* both sides have made their session and started runSession
WrInit ==
    /\ wrLoop = [r \in Receivers |-> "running"]
    /\ wrSlot = <<>>
    /\ wrWire = [r \in Receivers |-> <<>>]
    /\ wrPartial = [r \in Receivers |-> FALSE]
    /\ wrFailedAt = [r \in Receivers |-> -1]

\* Session.WriteFrame whose error the caller only logs
WrWriteFrameLogged(r, frm, ok, part) ==
    IF ok
    THEN /\ wrWire' = [wrWire EXCEPT ![r] = Append(@, frm)]
         /\ UNCHANGED <<wrLoop, wrPartial, wrFailedAt>>
    ELSE /\ wrPartial' = [wrPartial EXCEPT ![r] = part]
         /\ wrFailedAt' = [wrFailedAt EXCEPT ![r] = Len(wrWire[r])]
         /\ UNCHANGED <<wrLoop, wrWire>>

\* Session.WriteFrame of side r: SetWriteDeadline, writeFrame into the buffer and
\* Flush put the frame on the connection; when one of them fails (the write deadline
\* of WriteTimeout included) the error is returned, with or without a part of the
\* frame on the connection, and the caller returns it from the loop
WrWriteFrame(r, frm, ok, part) ==
    IF ok
    THEN /\ wrWire' = [wrWire EXCEPT ![r] = Append(@, frm)]
         /\ UNCHANGED <<wrLoop, wrPartial, wrFailedAt>>
    ELSE /\ wrLoop' = [wrLoop EXCEPT ![r] = "exited"]
         /\ wrPartial' = [wrPartial EXCEPT ![r] = part]
         /\ wrFailedAt' = [wrFailedAt EXCEPT ![r] = Len(wrWire[r])]
         /\ UNCHANGED wrWire

\* run (server), case input := <-inputs: the non-blocking send on sess.inputs
WrOffer ==
    /\ Len(wrSlot) < 1
    /\ Len(wrWire["server"]) < MaxWrites
    /\ wrSlot' = Append(wrSlot, InputFrame)
    /\ UNCHANGED <<wrLoop, wrWire, wrPartial, wrFailedAt>>
    /\ WrFrame

\* runSession (server), case input := <-sess.inputs: sess.writeInput(input)
WrServerInput(ok, part) ==
    /\ wrLoop["server"] = "running"
    /\ wrSlot # <<>>
    /\ wrSlot' = Tail(wrSlot)
    /\ WrWriteFrame("server", Head(wrSlot), ok, part)
    /\ WrFrame

\* runSession of side r, case <-sess.SendPingDeadline(): sess.SendPing()
WrSendPing(r, ok, part) ==
    /\ wrLoop[r] = "running"
    /\ Len(wrWire[r]) < MaxWrites
    /\ WrWriteFrame(r, PingFrame, ok, part)
    /\ UNCHANGED wrSlot
    /\ WrFrame

\* runSession of side r returns for another reason: ctx, ping timeout, inbox closed
WrOtherExit(r) ==
    /\ wrLoop[r] = "running"
    /\ wrLoop' = [wrLoop EXCEPT ![r] = "exited"]
    /\ UNCHANGED <<wrSlot, wrWire, wrPartial, wrFailedAt>>
    /\ WrFrame

WrNext ==
    \/ WrOffer
    \/ \E ok, part \in BOOLEAN : WrServerInput(ok, part)
    \/ \E r \in Receivers : \E ok, part \in BOOLEAN : WrSendPing(r, ok, part)
    \/ \E r \in Receivers : WrOtherExit(r)

\* the state of the later sections after construction
ExtInit == DlInit /\ ClInit /\ RxInit /\ HkInit /\ KbInit /\ WrInit

(***************************************************************************)
(* Specifications.                                                         *)
(***************************************************************************)
\* every subsystem as it is when the server has started
InitAll == TSInit /\ CtlInit /\ SrcInit /\ NzInit /\ CodecInit /\ TlsInit /\ ClientInit
        /\ PipeInit /\ GenInit /\ ExtInit

InitTransportServer == InitAll /\ ~relay

SpecTransportServer == InitTransportServer /\ [][TSNext]_vars

\* the transport server while it stays up: the context is not cancelled and the
\* listener does not fail
TurnoverNext ==
    \/ Accept
    \/ RunConn
    \/ RunInput
    \/ RunDone
    \/ SendTimerFire
    \/ RecvTimerFire
    \/ SessInput
    \/ SessSendPing
    \/ SessRecvTimeout
    \/ SessInboxFrame
    \/ SessInboxClosed
    \/ \E tag \in PeerTags : ReaderRead(tag)
    \/ ReaderExit

\* the goroutine of run is scheduled, and its select takes a case that stays ready
SpecSessionTurnover ==
    /\ InitTransportServer
    /\ [][TurnoverNext]_vars
    /\ WF_vars(RunDone)

InitToggle == InitAll

SpecToggle == InitToggle /\ [][CtlNext]_vars

\* the transport server with its first session established
TSSessionInit ==
    /\ ctxDone = FALSE
    /\ accepted = 1
    /\ rcpPC = "accept"
    /\ rcpConn = 0
    /\ connState = [c \in ConnIds |-> IF c = 1 THEN "open" ELSE "unborn"]
    /\ sessOf = [c \in ConnIds |-> IF c = 1 THEN "open" ELSE "none"]
    /\ rejected = {}
    /\ sess = 1
    /\ sessInputs = <<>>
    /\ sessDone = <<>>
    /\ sendPing = ArmedDeadline(1)
    /\ recvPing = ArmedDeadline(1)
    /\ sessLoop = "running"
    /\ readerPC = "reading"
    /\ inboxFrame = 0
    /\ runPC = "loop"
    /\ nInputs = 0
    /\ nFrames = 0
    /\ written = <<>>

\* run returns err: the deferred source.Stop() posts the stop command to the pump
\* thread, and the goroutine sends err on done
CtlReturn(err) ==
    /\ ctlPC' = "returned"
    /\ ctlDone' = Append(ctlDone, err)
    /\ stopCalled' = TRUE
    /\ msgQueue' = IF srcPC = "loop" THEN Append(msgQueue, StopMessage) ELSE msgQueue
    /\ UNCHANGED <<now, held, normPrev, buffer, relay, toggledAt, pending, events,
                   captureReqs, nEvents, lastCall, hist>>
    /\ UNCHANGED <<srcPC, srcErr, hook_event, eat_input, captureInputs, oldCursorPos,
                   cursor, handleInputs, osEvents, recorded, lastSwitch, nTaken>>
    /\ UNCHANGED <<tsVars, nzVars, codecVars, tlsVars, clientVars, pipeVars, genVars,
                   extVars>>

\* run, case <-ctx.Done(): return ctx.Err()
CtlCtxDone ==
    /\ ctlPC = "select"
    /\ ctxDone
    /\ CtlReturn("context canceled")

\* run, case err := <-transport: the transport's run has returned and its goroutine
\* has sent the error on the transport's done channel
CtlTransportDone ==
    /\ ctlPC = "select"
    /\ runPC = "returned"
    /\ CtlReturn("transport")

\* the control loop relaying to a transport whose context is cancelled
RelayNext ==
    \/ \E raw \in RawInputs, d \in Deltas : SourceInput(raw, d)
    \/ ForwardTaken
    \/ CtxCancel
    \/ RunCtxDone
    \/ CtlCtxDone
    \/ CtlTransportDone

InitRelay ==
    TSSessionInit /\ CtlInit /\ relay /\ SrcInit /\ NzInit /\ CodecInit /\ TlsInit /\ ClientInit
        /\ PipeInit /\ GenInit /\ ExtInit

SpecRelay == InitRelay /\ [][RelayNext]_vars

\* every goroutine that can take a step is scheduled in the end: the transport's run and
\* the control loop, whose select takes a case that stays ready
SpecRelayFair ==
    /\ SpecRelay
    /\ WF_vars(RunCtxDone)
    /\ WF_vars(ForwardTaken)
    /\ WF_vars(CtlCtxDone)
    /\ WF_vars(CtlTransportDone)

InitPingDeadline == InitAll /\ ~relay

SpecPingDeadline == InitPingDeadline /\ [][DlNext]_vars

InitClose == InitAll /\ ~relay

SpecClose == InitClose /\ [][CloseNext]_vars

InitReceivers == InitAll /\ ~relay

SpecReceivers == InitReceivers /\ [][RxNext]_vars

InitRun ==
    /\ TSInit /\ CtlInit /\ ~relay /\ RunInit /\ NzInit /\ CodecInit /\ TlsInit /\ ClientInit
    /\ PipeInit /\ GenInit /\ DlInit /\ ClInit /\ RxInit /\ KbInit /\ WrInit

SpecRun == InitRun /\ [][RunNext]_vars

InitKeyLookup ==
    /\ TSInit /\ CtlInit /\ ~relay /\ SrcInit /\ NzInit /\ CodecInit /\ TlsInit /\ ClientInit
    /\ PipeInit /\ GenInit /\ DlInit /\ ClInit /\ RxInit /\ HkInit /\ KbPosted /\ WrInit

SpecKeyLookup == InitKeyLookup /\ [][KbNext]_vars

InitWrites == InitAll /\ ~relay

SpecWrites == InitWrites /\ [][WrNext]_vars

InitCapture == InitAll /\ ~relay

\* the message loop of the source goes on as long as a message is waiting
SpecCapture ==
    /\ InitCapture
    /\ [][CaptureNext]_vars
    /\ WF_vars(PumpHookEvent)
    /\ WF_vars(PumpSetCaptureInputs)

InitRelayPipe == InitAll

SpecRelayPipe == InitRelayPipe /\ [][RelayPipeNext]_vars

InitGenerations == InitAll /\ ~relay

SpecGenerations == InitGenerations /\ [][GenNext]_vars

InitPipeline == InitAll /\ ~relay

SpecPipeline == InitPipeline /\ [][PipeNext]_vars

InitSource == InitAll /\ ~relay

SpecSource == InitSource /\ [][SrcNext]_vars

InitSourceBacklog ==
    TSInit /\ CtlBacklogInit /\ SrcBacklogInit /\ NzInit /\ CodecInit /\ TlsInit /\ ClientInit
        /\ PipeInit /\ GenInit /\ ExtInit

SpecSourceBacklog == InitSourceBacklog /\ [][BacklogNext]_vars

InitNormalizer == InitAll /\ ~relay

SpecNormalizer == InitNormalizer /\ [][NzNext]_vars

InitCodec == InitAll /\ ~relay

SpecCodec == InitCodec /\ [][CodecNext]_vars

InitDecode == InitAll /\ ~relay

SpecDecode == InitDecode /\ [][DecodeNext]_vars

InitTLS == InitAll /\ ~relay

SpecTLS == InitTLS /\ [][TlsNext]_vars

InitTransportClient == InitAll /\ ~relay

SpecTransportClient == InitTransportClient /\ [][ClientNext]_vars


(***************************************************************************)
(* Claims about the transport server.                                      *)
(***************************************************************************)

\* the sessions that are not closed
OpenSessions == {c \in ConnIds : sessOf[c] = "open"}

\* a step of run that takes a connection from the receptionist while the current
\* session is not closed closes that connection, makes no session of it and leaves
\* the session (its connection, queued input, done channel and deadlines) as it was
RejectLeavesSession ==
    (runPC = "loop" /\ rcpPC = "offer" /\ rcpPC' = "accept" /\ ~Closed(sess)) =>
        /\ connState'[rcpConn] = "closed"
        /\ sessOf'[rcpConn] = "none"
        /\ sess' = sess
        /\ sessOf'[sess] = "open"
        /\ connState'[sess] = connState[sess]
        /\ sessInputs' = sessInputs
        /\ sessDone' = sessDone
        /\ sendPing' = sendPing
        /\ recvPing' = recvPing

\* C1: the transport server never has more than one non-closed session; a connection
\* handed over by the receptionist while the current session is not closed is closed
\* at once, never becomes a session, and leaves the active session (connection,
\* queued input, ping deadlines) unchanged.
C1_SingleSession ==
    /\ [](Cardinality(OpenSessions) <= 1)
    /\ [](\A c \in rejected : sessOf[c] = "none" /\ connState[c] = "closed" /\ sess # c)
    /\ [][RejectLeavesSession]_vars

\* a connection has been rejected while the session on another connection is open
\* with an input queued for its writer
C1_Witness ==
    /\ rejected # {}
    /\ sess # 0
    /\ sessOf[sess] = "open"
    /\ connState[sess] = "open"
    /\ sessInputs # <<>>

(***************************************************************************)
(* Claims about the toggle detector and the control loop.                  *)
(***************************************************************************)

IsRightCtrl(e) == e.k.key = RightCtrl

\* the right-control entries of a buffer, oldest first
RightCtrlEntries(buf) == SelectSeq(buf, IsRightCtrl)

\* rc holds Down, Up, Down, Up in this order (oldest first), each later than after
\* and none older than oldest in whole milliseconds
HasDownUpDownUp(rc, after, oldest) ==
    \E i, j, k, l \in 1..Len(rc) :
        /\ i < j /\ j < k /\ k < l
        /\ rc[i].k.action = KeyActionDown /\ rc[j].k.action = KeyActionUp
        /\ rc[k].k.action = KeyActionDown /\ rc[l].k.action = KeyActionUp
        /\ rc[i].t > after
        /\ UnixMilli(rc[i].t) >= UnixMilli(oldest)

\* the last four right-control events pushed are Down, Up, Down, Up and the latest
\* call of toggleKeyStrokeExists is the one that followed the push of that last Up
LastFourAreDoubleTap ==
    /\ Len(hist) >= 4
    /\ hist[Len(hist) - 3].k.action = KeyActionDown
    /\ hist[Len(hist) - 2].k.action = KeyActionUp
    /\ hist[Len(hist) - 1].k.action = KeyActionDown
    /\ hist[Len(hist)].k.action = KeyActionUp
    /\ lastCall.input = KeyPress(RightCtrl, KeyActionUp)
    /\ lastCall.now = hist[Len(hist)].t

DoubleTapSpan == hist[Len(hist)].t - hist[Len(hist) - 3].t

\* the same in whole milliseconds, as the clock readings are compared by push
DoubleTapSpanMillis == UnixMilli(hist[Len(hist)].t) - UnixMilli(hist[Len(hist) - 3].t)

\* C2: toggleKeyStrokeExists(after) returns true only if the right-control entries of
\* the buffer contain the complete sequence Down, Up, Down, Up (oldest to newest),
\* all four inside the 300 ms window and strictly after `after`.
C2_TrueOnlyOnCompleteSequence ==
    lastCall.yes =>
        HasDownUpDownUp(RightCtrlEntries(buffer), lastCall.after, lastCall.now - Window)

\* C3: no buffer entry whose timestamp is less than or equal to `after` is counted
\* towards a match by toggleKeyStrokeExists.
C3_NoStaleEntryCounted ==
    lastCall.yes => \A i \in lastCall.counted : buffer[i].t > lastCall.after

\* C4: each matched double-tap flips relay exactly once: a step of the control loop
\* flips relay only if a right-control Down, Up, Down, Up made only of events later
\* than the previous toggle timestamp has been received.
C4_FlipNeedsFreshSequence ==
    [][relay' # relay => HasDownUpDownUp(hist', toggledAt, ZeroTime)]_vars

\* C5: a right-control Down, Up, Down, Up whose first Down and last Up are more than
\* 300 ms apart never produces a toggle.
C5_SlowSequenceNoToggle ==
    (LastFourAreDoubleTap /\ DoubleTapSpanMillis > WindowMillis) => ~lastCall.yes

\* C6: when right-control Down, Up, Down, Up have been pushed with all four timestamps
\* inside 300 ms and after last_toggle_at (other keys may be interleaved), the call of
\* toggleKeyStrokeExists that follows the last Up returns true with the timestamp of
\* that newest Up.
C6_DoubleTapDetected ==
    (/\ LastFourAreDoubleTap
     /\ DoubleTapSpan <= Window
     /\ hist[Len(hist) - 3].t > lastCall.after) =>
        (lastCall.yes /\ lastCall.at = hist[Len(hist)].t)

\* a double tap inside the window, later than an earlier toggle, with an event of
\* another key between the first Down and the last Up, has been detected
C6_Witness ==
    /\ LastFourAreDoubleTap
    /\ DoubleTapSpan <= Window
    /\ hist[Len(hist) - 3].t > lastCall.after
    /\ lastCall.after # ZeroTime
    /\ lastCall.yes
    /\ \E i \in 1..Len(buffer) :
         /\ buffer[i].k.key = KeyA
         /\ buffer[i].t > hist[Len(hist) - 3].t

(***************************************************************************)
(* Claims about the input source.                                          *)
(***************************************************************************)
\* the input events whose message the pump has handled
Handled == {i \in 1..Len(osEvents) : osEvents[i].fate # "queued"}

\* C7: in every interleaving of hook invocations, pump steps and SetCaptureInputs
\* requests, no mouse move is both withheld from the OS and not reported on
\* Handle.inputs; stated here for the mouse moves whose message the pump has handled
\* and whose payload was still in the scratch slot at that time
C7_NoMouseMoveLost ==
    \A i \in Handled :
        (/\ osEvents[i].code = "WM_MOUSEMOVE"
         /\ osEvents[i].withheld
         /\ osEvents[i].payload = i)
            => osEvents[i].fate = "reported"

IsDown(e) == e.type = "KeyPress" /\ e.action = KeyActionDown

\* the input with every Down(K) that directly follows a Down(K) of the same key, that
\* is every element but the first of a maximal run of Down(K), replaced by Repeat(K)
RunsRewritten(in) ==
    [i \in 1..Len(in) |->
        IF i > 1 /\ IsDown(in[i]) /\ IsDown(in[i - 1]) /\ in[i].key = in[i - 1].key
        THEN KeyPress(in[i].key, KeyActionRepeat)
        ELSE in[i]]

\* C9: the outputs of successive Normalize calls are the inputs with each maximal run
\* of n >= 2 Down(K) of one key turned into Down(K) and n-1 Repeat(K), and everything
\* else unchanged
C9_NormalizeRewritesRuns == nzOut = RunsRewritten(nzIn)

\* a run of three, ended by the Down of another key
C9_Witness ==
    /\ nzIn = <<KeyPress(RightCtrl, KeyActionDown), KeyPress(RightCtrl, KeyActionDown),
                KeyPress(RightCtrl, KeyActionDown), KeyPress(KeyA, KeyActionDown)>>
    /\ nzOut = <<KeyPress(RightCtrl, KeyActionDown), KeyPress(RightCtrl, KeyActionRepeat),
                 KeyPress(RightCtrl, KeyActionRepeat), KeyPress(KeyA, KeyActionDown)>>

(***************************************************************************)
(* Claims about the frame codec.                                           *)
(***************************************************************************)
WellFormed(frm) == frm.Length = Len(frm.Value) /\ frm.Length <= ValueMaxLength

\* C10: the i-th frame read is the i-th frame written, read without error from
\* exactly 4 + Length bytes, whenever that frame has Length = |Value| <= 1020; when
\* every frame written has been read the stream is empty
C10_RoundTrip ==
    /\ \A i \in 1..Len(readBack) :
           WellFormed(wrote[i]) =>
               readBack[i] = [frame |-> wrote[i], err |-> "nil",
                              consumed |-> 4 + wrote[i].Length]
    /\ Len(readBack) = Len(wrote) => wire = <<>>

\* two frames on the stream, the first of the greatest length, both read back
C10_Witness ==
    /\ Len(readBack) = 2
    /\ wrote[1].Length = ValueMaxLength
    /\ wrote[2].Length = 256
    /\ wrote[2].Tag = 65535
    /\ readBack[1].frame = wrote[1]
    /\ readBack[2].frame = wrote[2]
    /\ readBack[2].consumed = 260

(***************************************************************************)
(* Claims about oversize frames.                                           *)
(***************************************************************************)
\* the stream begins with a frame header whose length field exceeds ValueMaxLength
OversizeHeaderRead ==
    /\ Len(wire) >= 4
    /\ readUint16(SubSeq(wire, 3, 4)) > ValueMaxLength

\* C11: once the four bytes of a header whose length field exceeds 1020 have been
\* read, readFrame returns, and what it returns is ErrMaxLengthExceeded
C11_OversizeHeaderRejected ==
    OversizeHeaderRead =>
        (ReadFrameReady(wire) /\ readFrame(wire).err = "ErrMaxLengthExceeded")

\* C12: a write through the codec fails and puts no byte on the stream whenever the
\* value is longer than 1020 bytes, and does not fail when it is 1020 bytes or shorter
C12_OversizeWriteFails ==
    /\ lastWrite.len > ValueMaxLength => (lastWrite.err # "nil" /\ lastWrite.put = 0)
    /\ lastWrite.len <= ValueMaxLength => lastWrite.err = "nil"


(***************************************************************************)
(* C13: data travels only between mutually pinned certificates.  The       *)
(* server reads the client's bytes only if the client's certificate is the *)
(* one the server pinned and the server's certificate is the one the       *)
(* client pinned, and with both pinned the server's read returns the bytes *)
(* without error; a client certificate the server did not pin makes the    *)
(* server's read fail with a certificate verification error and no data;   *)
(* a server certificate the client did not pin makes the dial fail with an *)
(* unknown-authority error.                                                *)
(***************************************************************************)
ClientPinned == VerifiedBy(tlsCfg.clientCert, tlsCfg.serverPool)

ServerPinned == VerifiedBy(tlsCfg.serverCert, tlsCfg.clientPool)

C13_DataOnlyBetweenPinnedPeers ==
    /\ tlsRead # <<>> => (ClientPinned /\ ServerPinned)
    /\ (ClientPinned /\ ServerPinned /\ tlsServer \in {"read", "failed"})
           => (tlsServer = "read" /\ tlsRead = Hello /\ tlsReadErr = "nil")
    /\ (~ClientPinned /\ ServerPinned /\ tlsServer \in {"read", "failed"})
           => (tlsReadErr = "CertificateVerificationError" /\ tlsRead = <<>>)
    /\ (~ServerPinned /\ tlsClient \in {"connected", "wrote", "failed"})
           => (tlsClient = "failed" /\ tlsDialErr = "UnknownAuthorityError")

\* C13 witness: both certificates are pinned and the server has read the client's bytes
C13_Witness ==
    /\ ClientPinned /\ ServerPinned
    /\ tlsClient = "wrote"
    /\ tlsServer = "read"
    /\ tlsRead = Hello


(***************************************************************************)
(* C14: the transport client never dials while a session of its own is     *)
(* open; every dial attempt after the first starts at least ReconnectDelay *)
(* after the failed dial or the end of the session that preceded it; and   *)
(* any two dial attempts start at least ReconnectDelay apart, so that no   *)
(* window of ReconnectDelay holds the start of two.                        *)
(***************************************************************************)
C14_OneDialPerReconnectDelay ==
    /\ cPC = "dial" => cSess # "open"
    /\ \A i \in 1..Len(cDials) :
          /\ cDials[i].since # NoTime => cDials[i].since >= ReconnectDelay
          /\ cDials[i].gap # NoTime => cDials[i].gap >= ReconnectDelay

\* C14 witness: the third dial attempt, made after a session has ended
C14_Witness ==
    /\ Len(cDials) = MaxDials
    /\ cSess = "closed"
    /\ cLastErr # "nil"
    /\ cPC = "dial"


(***************************************************************************)
(* C15: the step of a session loop that takes the fired receive-ping       *)
(* deadline ends the loop and puts ErrPingTimedOut, and nothing else, on   *)
(* the session's done channel; the owner that receives from done closes    *)
(* the session and its connection; and the client, having received         *)
(* ErrPingTimedOut, dials again only after ReconnectDelay has passed since *)
(* it closed the session.                                                  *)
(***************************************************************************)
ServerPingTimeout ==
    /\ SessRecvTimeout => (sessLoop' = "exited" /\ sessDone' = <<"pingTimedOut">>)
    /\ RunDone => (sessOf'[sess] = "closed" /\ connState'[sess] = "closed")

ClientPingTimeout ==
    /\ ClientSessRecvTimeout => (cSessPC' = "exited" /\ cDone' = <<"ErrPingTimedOut">>)
    /\ (cPC = "session" /\ cPC' # "session")
          => (cLastErr' = Head(cDone) /\ cSess' = "closed" /\ cPC' = "wait" /\ cWaited' = 0)
    /\ (cPC = "wait" /\ cPC' = "dial")
          => (cWaited >= ReconnectDelay /\ cSess # "open")

InputHandedOver ==
    /\ RunInput => runPC' = "loop"
    /\ (RunInput /\ (sess = 0 \/ sessInputs # <<>>)) => sessInputs' = sessInputs
    /\ Len(written') > Len(written) => (sessLoop = "running" /\ connState[sess] = "open")

C16_RelayNeverBlocksOnSession ==
    /\ [](Len(sessInputs) <= 1)
    /\ [][InputHandedOver]_vars

\* C16 witness: the second event arrived while the first was still pending and was dropped
C16_Witness ==
    /\ sess # 0
    /\ nInputs = 2
    /\ sessInputs = <<1>>
    /\ written = <<>>
    /\ runPC = "loop"


(***************************************************************************)
(* C17: the message pump of the input source never waits when it emits an  *)
(* event.  Handle.inputs has room for at least 1000 events and never holds *)
(* more than its capacity; a hook message at the head of the queue can     *)
(* always be handled; an event emitted while the channel is full is        *)
(* dropped, and only then; and what the consumer has still to receive is   *)
(* the tail of the events delivered, in the order in which the pump        *)
(* emitted them.                                                           *)
(***************************************************************************)
RECURSIVE DeliveredOf(_)
DeliveredOf(evs) ==
    IF evs = <<>>
    THEN <<>>
    ELSE LET rest == DeliveredOf(SubSeq(evs, 1, Len(evs) - 1))
             e == evs[Len(evs)]
         IN  IF e.fate = "reported" THEN Append(rest, e.out) ELSE rest

Emitting ==
    /\ srcPC = "loop"
    /\ msgQueue # <<>>
    /\ Head(msgQueue).message = "HOOK_EVENT"

\* the events the pump put on the channel are its newest entries, in the order of emission
NewestInOrder ==
    LET d == DeliveredOf(osEvents)
        n == Len(handleInputs)
    IN  /\ n = Len(Backlog) + Len(d) - nTaken
        /\ \A k \in 1..Len(d) : handleInputs[n - Len(d) + k] = d[k]

\* what the step that handles the hook message of event i does to the channel
EmittedOrDropped(i) ==
    LET n == Len(handleInputs)
        e == osEvents'[i]
    IN  CASE e.fate = "dropped" -> n = InputsCap /\ Len(handleInputs') = n
          [] e.fate = "reported" ->
                 /\ n < InputsCap
                 /\ Len(handleInputs') = n + 1
                 /\ handleInputs'[n + 1] = e.out
          [] OTHER -> Len(handleInputs') = n

DropOnlyWhenFull ==
    \A i \in 1..Len(osEvents) :
        (osEvents[i].fate = "queued" /\ osEvents'[i].fate # "queued") => EmittedOrDropped(i)

C17_PumpNeverBlocksOnInputs ==
    /\ [](/\ InputsCap >= 1000
          /\ Len(handleInputs) <= InputsCap
          /\ Emitting => ENABLED PumpHookEvent
          /\ NewestInOrder)
    /\ [][DropOnlyWhenFull]_vars

\* C17 witness: one event was emitted into a full channel and dropped, and the event
\* emitted after the consumer had made room was delivered
C17_Witness ==
    /\ Len(osEvents) = 2
    /\ osEvents[1].fate = "reported"
    /\ osEvents[2].fate = "dropped"
    /\ Len(handleInputs) = InputsCap


(***************************************************************************)
(* C18: the control loop of the server never waits when it forwards an     *)
(* input to the events channel of the transport: it is never inside the    *)
(* send on events while the transport's run is not there to receive.       *)
(***************************************************************************)
C18_ForwardNeverWaits == ctlPC = "sending" => runPC = "loop"


(***************************************************************************)
(* C19: when the context is cancelled, the step of the transport server's  *)
(* run that takes ctx.Done() makes run return, with its current session    *)
(* and that session's connection closed, whatever state run is in: with no *)
(* client ever connected, with a session open, with a session terminated.  *)
(***************************************************************************)
CancelReturns ==
    RunCtxDone =>
        /\ runPC' = "returned"
        /\ sess # 0 => (sessOf'[sess] = "closed" /\ connState'[sess] = "closed")

C19_CancelReturnsCtxError == [][CancelReturns]_vars

(***************************************************************************)
(* C20: when the context is cancelled, the step of the transport client's  *)
(* goroutine that takes ctx.Done() makes the goroutine return, with the    *)
(* context error recorded, Inputs closed and no session left open,         *)
(* whatever state the loop is in, also before any dial has succeeded.      *)
(***************************************************************************)
ClientCancelReturns ==
    ClientCtxDone =>
        /\ cPC' = "returned"
        /\ hErr' = "context canceled"
        /\ cInputsClosed'
        /\ cSess' # "open"

C20_CancelTerminatesClient == [][ClientCancelReturns]_vars


(***************************************************************************)
(* C21: within one session, the events the client's consumer has received  *)
(* are events the control loop forwarded, each at most once and in the     *)
(* order in which they were forwarded.                                     *)
(***************************************************************************)
C21_DeliveredInOrder ==
    /\ \A i \in 1..Len(pDelivered) : pDelivered[i].id \in 1..pNext
    /\ \A i, j \in 1..Len(pDelivered) :
          (i < j /\ pDelivered[i].sess = pDelivered[j].sess)
              => pDelivered[i].id < pDelivered[j].id

\* C21 witness: two events forwarded one after the other have both come through the
\* same session
C21_Witness ==
    /\ Len(pDelivered) = 2
    /\ pDelivered[1].sess = pDelivered[2].sess

(***************************************************************************)
(* C22: an event that run was offered while it had no session, or after    *)
(* its session had terminated, is never delivered, and so not by a later   *)
(* session: every delivered event was offered to the session that          *)
(* delivered it, while that session was active.                            *)
(***************************************************************************)
C22_NoReplayAcrossSessions ==
    \A i \in 1..Len(pDelivered) :
        /\ pOffer[pDelivered[i].id].sess = pDelivered[i].sess
        /\ pOffer[pDelivered[i].id].active

\* C22 witness: the first event was offered after session 1 had terminated, session 2
\* has been established since, and it delivered the event offered to it
C22_Witness ==
    /\ pNext = 2
    /\ pOffer[1].sess = 1 /\ ~pOffer[1].active
    /\ pSess = 2
    /\ pDelivered = <<[sess |-> 2, id |-> 2]>>


(***************************************************************************)
(* C23: once the context is cancelled or the transport has returned its    *)
(* error, the goroutine of the control loop returns in the end: it has     *)
(* sent the error on its done channel and has stopped the input source,    *)
(* also with relay on and inputs arriving.                                 *)
(***************************************************************************)
C23_ControlLoopReturns ==
    (ctxDone \/ runPC = "returned")
        ~> (ctlPC = "returned" /\ ctlDone # <<>> /\ stopCalled)


(***************************************************************************)
(* C24: a key event is pushed to the toggle buffer before it is forwarded  *)
(* to the transport: while the control loop is sending a key event on      *)
(* events, the latest push to the buffer was the push of that event, made  *)
(* in this iteration.                                                      *)
(***************************************************************************)
C24_PushedBeforeForwarded ==
    (ctlPC = "sending" /\ pending.type = "KeyPress" /\ pending.action # KeyActionRepeat)
        => (lastCall.input = pending /\ lastCall.now = now /\ buffer # <<>>)


(***************************************************************************)
(* C26: two generations never run at the same time: whenever a generation  *)
(* has been started, every generation before it has been cancelled and     *)
(* has fully stopped (its run goroutine, its transport and its sink).      *)
(***************************************************************************)
C26_OneGenerationAtATime ==
    \A i \in 1..Len(gens) :
        i < Len(gens) => (gens[i].cancelled /\ FullyStopped(gens[i]))


(***************************************************************************)
(* C30: entering capture mode, the source saves the cursor position, then  *)
(* moves the cursor to the screen centre and only then sets the hook's     *)
(* consume flag: in every step that sets the flag, the position from       *)
(* before the step is the saved one and the cursor is at the centre.       *)
(***************************************************************************)
C30_ConsumeFlagSetLast ==
    [][(eat_input' /\ ~eat_input)
          => /\ oldCursorPos' = [set |-> TRUE, pt |-> cursor]
             /\ cursor' = screenCenter]_vars


(***************************************************************************)
(* C27: every hook message the pump has handled was translated from the    *)
(* payload that the hook invocation which posted the message wrote: no     *)
(* later invocation had overwritten the scratch slot by then.              *)
(***************************************************************************)
C27_MessageReadsItsOwnPayload ==
    \A i \in Handled : osEvents[i].payload = i


(***************************************************************************)
(* C28: the control loop forwards an input exactly if relay was true when  *)
(* the input was received; the key that completes a toggle gesture is      *)
(* forwarded according to the value relay had before the flip.  In every   *)
(* step: an input received is sent on events iff relay is true; only the   *)
(* input being sent reaches the transport; a step that flips relay is the  *)
(* step that forwards the completing key iff relay was true before.        *)
(***************************************************************************)
C28_ForwardedIffRelaying ==
    [][/\ (nEvents' > nEvents) => ((ctlPC' = "sending") <=> relay)
       /\ (nEvents' > nEvents) => events' = events
       /\ (events' # events)
             => /\ ctlPC = "sending"
                /\ events' = Append(events, pending)
                /\ pending.type = "KeyPress" => lastCall'.input = pending
       /\ (relay' # relay)
             => /\ (events' # events) <=> relay
                /\ lastCall'.yes
                /\ relay => events'[Len(events')] = lastCall'.input]_vars

\* C28 witness: four keys were forwarded while relay was on, the fourth being the
\* right-control Up that completed the gesture and turned relay off, and the two inputs
\* received after it were not forwarded
C28_Witness ==
    /\ ~relay
    /\ nEvents = 6
    /\ ctlPC = "select"
    /\ Len(events) = 4
    /\ events[4] = KeyPress(RightCtrl, KeyActionUp)
    /\ toggledAt > 1


(***************************************************************************)
(* C25: a connection takes the session slot only once its TLS handshake    *)
(* has succeeded, and a connection without a successful handshake never    *)
(* causes another one to be rejected.  A connection made by the listener   *)
(* of tls.NewListener does its handshake inside its first Read or Write,   *)
(* so the handshake of the session's connection has succeeded only if a    *)
(* frame has been read from it or written to it.                           *)
(***************************************************************************)
HandshakeSucceeded == nFrames > 0 \/ written # <<>>

C25_SlotOnlyAfterHandshake ==
    [][/\ (sess' # sess) => HandshakeSucceeded'
       /\ (rejected' # rejected) => HandshakeSucceeded]_vars


(***************************************************************************)
(* C29: after the session's runSession has returned, for whatever reason,  *)
(* the server marks the session closed in the end; and a connection that   *)
(* run takes while the session is closed becomes the session: it is not    *)
(* rejected.                                                               *)
(***************************************************************************)
C29_TerminatedSessionGivesWay ==
    /\ (sessLoop = "exited") ~> Closed(sess)
    /\ [][(runPC = "loop" /\ rcpPC = "offer" /\ rcpPC' = "accept" /\ Closed(sess))
             => /\ sess' = rcpConn
                /\ ~Closed(sess)'
                /\ sessLoop' = "running"
                /\ rejected' = rejected]_vars

\* C29 witness: the first session has terminated and was closed, and the connection
\* that arrived afterwards is the session now
C29_Witness ==
    /\ sess = 2
    /\ sessOf[1] = "closed"
    /\ sessOf[2] = "open"
    /\ sessLoop = "running"
    /\ rejected = {}


(***************************************************************************)
(* C31: between two messages handled by the pump, a saved cursor position  *)
(* exists exactly if the source is in capture mode.                        *)
(***************************************************************************)
C31_SavedIffCapturing ==
    srcPC = "loop" => (oldCursorPos.set <=> captureInputs)

\* C31 witness: capture mode was entered and has been left again, and the pump goes on
C31_Witness ==
    /\ srcPC = "loop"
    /\ lastSwitch = "left"
    /\ ~captureInputs
    /\ ~oldCursorPos.set


(***************************************************************************)
(* C32: after every call of keyBuffer.push, whatever the action of the key *)
(* pushed, the buffer holds no entry older (in whole milliseconds) than    *)
(* 300 ms before the time of the call, and its entries are in              *)
(* non-decreasing order of time.  The buffer changes in push only, so      *)
(* between two calls it is the buffer the latest call left.                *)
(***************************************************************************)
C32_PrunedOnEveryPush ==
    lastCall.input.type = "KeyPress"
        => /\ \A i \in 1..Len(buffer) :
                 UnixMilli(buffer[i].t) >= UnixMilli(lastCall.now - Window)
           /\ \A i, j \in 1..Len(buffer) : i < j => buffer[i].t <= buffer[j].t


(***************************************************************************)
(* C33: processing a ping puts the receive deadline PingTimeout after the  *)
(* processing, so a session whose pings are processed less than            *)
(* PingTimeout apart does not end with ErrPingTimedOut: while less than    *)
(* PingTimeout has passed since the latest ping was processed, the         *)
(* deadline has not fired, and a session that ended with the ping timeout  *)
(* had gone PingTimeout without one.                                       *)
(***************************************************************************)
C33_PingResetsDeadline ==
    /\ (dlLoop = "running" /\ dlGap < PingTimeout) => ~dlFired
    /\ dlErr = "pingTimedOut" => dlGap = PingTimeout

\* C33 witness: the session is older than PingTimeout and still running with a deadline
\* that lies ahead, a ping having been processed
C33_Witness ==
    /\ dlLoop = "running"
    /\ dlAge > PingTimeout
    /\ dlGap < PingTimeout
    /\ ~dlFired


(***************************************************************************)
(* C34: Close may be called any number of times and from several           *)
(* goroutines at once: the connection is closed at most once, and exactly  *)
(* once when a call has returned; closed never goes back to false; and     *)
(* when a call has returned, closed is true and the reader is cancelled.   *)
(***************************************************************************)
SomeCloseReturned ==
    \E g \in Closers : clCalls[g] > 1 \/ (clCalls[g] = 1 /\ clPC[g] = "idle")

C34_CloseIsIdempotent ==
    /\ [](clConnCloses <= 1)
    /\ [](SomeCloseReturned => (clClosed /\ clCancelled))
    /\ []((\A g \in Closers : clPC[g] = "idle") /\ SomeCloseReturned => clConnCloses = 1)
    /\ [][clClosed => clClosed']_vars

\* C34 witness: one caller has closed the connection and still holds the mutex while
\* another, which found closed false at its first test, waits for the mutex
C34_Witness ==
    /\ clPC[1] = "unlock"
    /\ clPC[2] = "lock"
    /\ clMu = 1
    /\ clConnCloses = 1


(***************************************************************************)
(* C35: a correctly framed frame the receiver cannot use is skipped: the   *)
(* session stays active, nothing is handed to the consumer for it and the  *)
(* frames after it are processed.  For each receiver: its loop is running, *)
(* and the consumer has received exactly the usable frames among those     *)
(* processed so far, in their order: on the client the event frames whose  *)
(* value decodes, on the server none.                                      *)
(***************************************************************************)
RxUsable(r, f) == r = "client" /\ f.tag \in EventTags /\ f.decodes

RxProcessed(r) == SubSeq(rxWire, 1, rxRead[r] - Len(rxInbox[r]))

RECURSIVE RxUsableOf(_, _)
RxUsableOf(r, fs) ==
    IF fs = <<>> THEN <<>>
    ELSE IF RxUsable(r, Head(fs)) THEN <<Head(fs)>> \o RxUsableOf(r, Tail(fs))
    ELSE RxUsableOf(r, Tail(fs))

C35_UnusableFrameSkipped ==
    \A r \in Receivers :
        /\ rxLoop[r] = "running"
        /\ rxOut[r] = RxUsableOf(r, RxProcessed(r))
        /\ ENABLED RxReaderRead(r) \/ rxInbox[r] # <<>> \/ rxRead[r] = Len(rxWire)

\* C35 witness: the peer sent a frame neither receiver can use (an unknown tag or an
\* event that does not decode) and then a key press; both receivers have processed
\* both, and the client's consumer has the key press
C35_Witness ==
    /\ Len(rxWire) = 2
    /\ ~RxUsable("client", rxWire[1])
    /\ rxWire[1].tag # TagPing
    /\ rxWire[2] = [tag |-> TagKeyPress, decodes |-> TRUE]
    /\ \A r \in Receivers : rxRead[r] = 2 /\ rxInbox[r] = <<>>
    /\ rxOut["client"] = <<rxWire[2]>>
    /\ rxOut["server"] = <<>>


(***************************************************************************)
(* C36: whenever run of the input source has returned, by the Stop         *)
(* command, the end of the message loop or a failing OS call at any        *)
(* point, no hook is installed any more.                                   *)
(***************************************************************************)
C36_HooksUninstalledOnReturn ==
    runStep = "done" => (mouseHook # "installed" /\ keyboardHook # "installed")

\* C36 witness: run has returned because an OS call failed while capture mode was being
\* entered, and both hooks, which had been installed, are removed
C36_Witness ==
    /\ runStep = "done"
    /\ srcErr = "oserror"
    /\ eat_input
    /\ mouseHook = "removed"
    /\ keyboardHook = "removed"


(***************************************************************************)
(* C38: for every virtual-key code the hook reports, the pump handles the  *)
(* keyboard hook event without failing on the lookup, and what it emits,   *)
(* if anything, is a KeyPress whose key is one of the named keys.          *)
(***************************************************************************)
C38_EmittedKeyIsNamed ==
    /\ kbPC # "panicked"
    /\ kbPC = "handled" =>
           \/ kbInput = NilEvent
           \/ kbInput.type = "KeyPress" /\ kbInput.key \in NamedKeyCodes


(***************************************************************************)
(* C37: once a write of an input frame or of a ping on a session has       *)
(* failed, the loop of that session has ended and the session never        *)
(* writes another frame.                                                   *)
(***************************************************************************)
C37_NoWriteAfterFailedWrite ==
    \A r \in Receivers :
        wrFailedAt[r] # -1 =>
            /\ wrLoop[r] = "exited"
            /\ Len(wrWire[r]) = wrFailedAt[r]

\* C37 witness: the server's session failed on its second frame, leaving a part of it
\* on the connection, while an input is waiting on sess.inputs and the client's
\* session goes on writing
C37_Witness ==
    /\ wrFailedAt["server"] = 1
    /\ wrPartial["server"]
    /\ wrSlot # <<>>
    /\ wrLoop["client"] = "running"
    /\ Len(wrWire["client"]) = 2


\* the flags of the SET_CAPTURE_INPUTS messages that wait in the queue, oldest first
PendingFlags ==
    LET F[i \in 0..Len(msgQueue)] ==
            IF i = 0 THEN <<>>
            ELSE IF msgQueue[i].message = "SET_CAPTURE_INPUTS"
            THEN Append(F[i - 1], msgQueue[i].wParam = "TRUE")
            ELSE F[i - 1]
    IN  F[Len(msgQueue)]

\* the requests are handled in the order of their issue: the waiting ones are the
\* latest requests, in their order, and the flags are those of the request before them
AppliedInOrder ==
    LET k == Len(captureReqs) - Len(PendingFlags)
    IN  /\ k >= 0
        /\ PendingFlags = SubSeq(captureReqs, k + 1, Len(captureReqs))
        /\ k > 0 => (captureInputs = captureReqs[k] /\ eat_input = captureReqs[k])
        /\ relay = captureReqs[Len(captureReqs)]

C40_ToggleIgnoresSession ==
    /\ [][(lastCall' # lastCall /\ lastCall'.yes) => relay' = ~relay]_vars
    /\ [](\A i \in 1..Len(pDelivered) :
              /\ pOffer[pDelivered[i].id].active
              /\ pOffer[pDelivered[i].id].sess = pDelivered[i].sess)

\* C40 witness: no client has connected; four inputs captured in relay mode were taken
\* by run and dropped, and the gesture they make has switched relay off
C40_Witness ==
    /\ pSess = 0
    /\ Len(pOffer) = 4
    /\ \A i \in 1..Len(pOffer) : ~pOffer[i].active
    /\ pSlot = <<>>
    /\ pDelivered = <<>>
    /\ lastCall.yes
    /\ ~relay
    /\ captureReqs = <<FALSE, TRUE, FALSE>>

====
